---------------------------- MODULE Spec2Model ----------------------------
(***************************************************************************)
(* Smart-File-Manager: the client-side folder-structure builder, the       *)
(* drag-and-drop entry walker (useFileUpload) and the server-side Google   *)
(* Drive adapter (GoogleDriveService).                                     *)
(*                                                                         *)
(* Strings that the code takes apart (relative paths) are sequences of     *)
(* one-character strings, so that split('/') is computed and not assumed.  *)
(* JavaScript values are records tagged by `kind`:                         *)
(*   object    [kind |-> "object", props |-> [key -> value]]               *)
(*   array     [kind |-> "array",  items |-> <<...>>]                      *)
(*   undefined [kind |-> "undefined"]                                      *)
(* and a folder node is the literal {type, children, files} of the code.   *)
(***************************************************************************)
EXTENDS Integers, Sequences, FiniteSets, TLC

VARIABLES
    files,          \* File[]: the builder's input / the walker's collected list
    structure,      \* buildFolderStructureFromFiles: `structure`
    fileIdx,        \* number of forEach iterations started
    buildStatus,    \* "running" | "returned" | "threw"
    items,          \* processDataTransferItems: the dropped items (entry or NoEntry)
    entryState,     \* per entry, the state of its processEntry promise
    entryPath,      \* per entry, the `path` argument of its processEntry call
    walkStatus,     \* the processDataTransferItems promise
    uploadProgress, \* useState<UploadProgress[]>
    intervals,      \* the progress intervals set, cleared or not
    mutations,      \* the mutate calls made on the two upload mutations
    oauth2Client,   \* GoogleDriveService.oauth2Client: the credentials set on it
    calls,          \* the downloadFile calls on the one googleDriveService
    listCalls,      \* the listFiles calls on the one googleDriveService
    clock,          \* Date.now() on the server
    issued,         \* the results of the generateAuthUrl calls made
    exchanges,      \* the exchangeCodeForTokens calls on the one service
    google_drive_tokens,   \* localStorage item 'google_drive_tokens'
    googleDriveConnected,  \* AuthProvider: useState(false)
    session,        \* the Supabase session: "none" | "user"
    authInit,       \* the page and its initializeAuth call
    urlParams,      \* the URLSearchParams read when the AuthProvider mounted
    location,       \* window.location.search of the page
    connectFlow,    \* the connectGoogleDrive call in progress
    popup,          \* the 'googleAuth' popup window
    revoked,        \* access tokens the provider no longer accepts
    browserToken,   \* GoogleDriveBrowser: accessToken, useState<string>('')
    request,        \* GoogleDriveBrowser: the Drive request in flight
    apiFailed,      \* whether a Drive call with the cached token has failed
    toast,          \* title of the last toast shown
    isOpen,         \* UploadArea: showGoogleDriveBrowser, the dialog's isOpen
    driveFiles,     \* GoogleDriveBrowser: files, useState<GoogleDriveFile[]>([])
    selectedFiles,  \* GoogleDriveBrowser: useState<Set<string>>(new Set())
    loading,        \* GoogleDriveBrowser: useState(false)
    importing,      \* GoogleDriveBrowser: useState(false)
    searchQuery,    \* GoogleDriveBrowser: useState('')
    currentFolderId,   \* GoogleDriveBrowser: useState<string>('root')
    folderHistory,  \* GoogleDriveBrowser: the breadcrumb entries
    fetches,        \* the dialog's fetch calls in the order they were issued
    toasts,         \* the toasts the dialog has shown
    reloadPending   \* window.location.reload() was called

builderVars == <<structure, fileIdx, buildStatus>>

walkerVars == <<items, entryState, entryPath, walkStatus>>

uploadVars == <<uploadProgress, intervals, mutations>>

driveVars == <<oauth2Client, calls>>

listVars == <<listCalls>>

\* what the builder, the walker and downloadFile never touch
oauthVars == <<clock, issued, exchanges>>

connState == <<google_drive_tokens, googleDriveConnected, session, authInit,
               urlParams, location, connectFlow, popup, revoked, browserToken,
               request, apiFailed>>

connVars == <<connState, toast>>

\* the state of the GoogleDriveBrowser dialog apart from its token
dialogState == <<driveFiles, selectedFiles, loading, importing, searchQuery,
                 currentFolderId, folderHistory, fetches, toasts,
                 reloadPending>>

dialogVars == <<isOpen, dialogState>>

restVars == <<listVars, oauthVars, connVars, dialogVars>>

vars == <<files, builderVars, walkerVars, uploadVars, driveVars, restVars>>

(***************************************************************************)
(* Bounds                                                                  *)
(***************************************************************************)
MaxFiles == 3

MaxItems == 2

\* entries one readEntries call delivers (a browser limit, scaled down)
ReadBatch == 2

\* concurrent downloadFile calls on the service
MaxCalls == 2

\* concurrent listFiles calls on the service
MaxListCalls == 1

\* generateAuthUrl calls
MaxUrls == 1

\* exchangeCodeForTokens calls
MaxExchanges == 2

\* milliseconds the server clock advances
MaxClock == 1

\* uploads started on one page
MaxUploads == 2

(***************************************************************************)
(* JavaScript values                                                       *)
(***************************************************************************)
Undefined == [kind |-> "undefined"]

EmptyObject == [kind |-> "object", props |-> <<>>]

EmptyArray == [kind |-> "array", items |-> <<>>]

\* the key the builder uses for a node's file list: "files"
FilesKey == <<"f", "i", "l", "e", "s">>

HasProp(obj, key) == key \in DOMAIN obj.props

\* obj[key]: undefined when the key is absent
GetProp(obj, key) == IF HasProp(obj, key) THEN obj.props[key] ELSE Undefined

\* obj[key] = value
SetProp(obj, key, value) ==
    [obj EXCEPT !.props = [k \in (DOMAIN obj.props) \cup {key} |->
                               IF k = key THEN value ELSE obj.props[k]]]

\* !v is false for every object and array, true for undefined
Truthy(v) == v.kind # "undefined"

\* array.push(x)
Push(arr, x) == [arr EXCEPT !.items = Append(arr.items, x)]

\* the object literal of lines 262-266
NewFolder == [kind |-> "node", type |-> "folder",
              children |-> EmptyObject, files |-> EmptyArray]

\* v.children: a folder node has the property, an array does not
ChildrenOf(v) == IF v.kind = "node" THEN v.children ELSE Undefined

(***************************************************************************)
(* relativePath.split('/')                                                 *)
(***************************************************************************)
RECURSIVE split(_)
split(s) ==
    IF \A i \in 1..Len(s) : s[i] # "/"
    THEN <<s>>
    ELSE LET i == CHOOSE j \in 1..Len(s) :
                      s[j] = "/" /\ \A k \in 1..(j-1) : s[k] # "/"
         IN <<SubSeq(s, 1, i-1)>> \o split(SubSeq(s, i+1, Len(s)))

\* (file as any).webkitRelativePath || file.name
RelativePathOf(file) ==
    IF file.webkitRelativePath # <<>> THEN file.webkitRelativePath ELSE file.name

(***************************************************************************)
(* One iteration of files.forEach (lines 254-280).  The result is          *)
(* [threw, value]: value is `current` after the iteration, threw is TRUE   *)
(* when the iteration raised a TypeError.                                  *)
(***************************************************************************)
Threw == [threw |-> TRUE, value |-> Undefined]

\* PushFile with the guard of line 273 lost: the list is reset on every file
PushFileReset(current, entry) ==
    IF current.kind # "object"
    THEN Threw
    ELSE IF GetProp(current, FilesKey).kind = "node"
    THEN Threw
    ELSE [threw |-> FALSE,
          value |-> SetProp(current, FilesKey, Push(EmptyArray, entry))]

\* lines 272-279: append the file to current.files
PushFile(current, entry) ==
    IF current.kind # "object"
    THEN Threw                                  \* undefined.files
    ELSE LET c1 == IF Truthy(GetProp(current, FilesKey)) THEN current
                   ELSE SetProp(current, FilesKey, EmptyArray)
             fl == GetProp(c1, FilesKey)
         IN IF fl.kind = "array"
            THEN [threw |-> FALSE, value |-> SetProp(c1, FilesKey, Push(fl, entry))]
            ELSE Threw                          \* a folder node has no push

\* lines 258-269, then 272-279, from path part i on
RECURSIVE Descend(_, _, _, _)
Descend(current, pathParts, i, entry) ==
    IF i > Len(pathParts) - 1
    THEN PushFile(current, entry)
    ELSE IF current.kind # "object"
    THEN Threw                                  \* undefined[folderName]
    ELSE LET folderName == pathParts[i]
             c1 == IF Truthy(GetProp(current, folderName)) THEN current
                   ELSE SetProp(current, folderName, NewFolder)
             v  == GetProp(c1, folderName)
             r  == Descend(ChildrenOf(v), pathParts, i + 1, entry)
         IN IF r.threw THEN Threw
            ELSE [threw |-> FALSE,
                  value |-> SetProp(c1, folderName, [v EXCEPT !.children = r.value])]

\* the forEach callback applied to one file
InsertFile(struct, file) ==
    LET relativePath == RelativePathOf(file)
        pathParts    == split(relativePath)
        entry == [name |-> pathParts[Len(pathParts)],
                  originalFile |-> file,
                  relativePath |-> relativePath]
    IN Descend(struct, pathParts, 1, entry)

\* buildFolderStructureFromFiles(fs): [threw, value]
RECURSIVE BuildFrom(_, _, _)
BuildFrom(struct, fs, i) ==
    IF i > Len(fs) THEN [threw |-> FALSE, value |-> struct]
    ELSE LET r == InsertFile(struct, fs[i])
         IN IF r.threw THEN Threw ELSE BuildFrom(r.value, fs, i + 1)

buildFolderStructureFromFiles(fs) == BuildFrom(EmptyObject, fs, 1)

(***************************************************************************)
(* Inputs of the builder                                                   *)
(***************************************************************************)
\* a File picked through input[webkitdirectory]: name is the last segment
DirFile(path) == LET p == split(path)
                 IN [name |-> p[Len(p)], webkitRelativePath |-> path]

\* a File with no relative path of its own
PlainFile(name) == [name |-> name, webkitRelativePath |-> <<>>]

InputFiles ==
    { PlainFile(<<"x">>),
      PlainFile(<<"y">>),
      PlainFile(<<>>),
      DirFile(<<"a", "/", "x">>),
      DirFile(<<"a", "/", "y">>),
      DirFile(<<"a", "/", "b", "/", "x">>),
      DirFile(<<"f", "i", "l", "e", "s", "/", "x">>),
      DirFile(<<"a", "/", "f", "i", "l", "e", "s", "/", "y">>) }

FileLists == UNION { [1..n -> InputFiles] : n \in 0..MaxFiles }

(***************************************************************************)
(* The dropped file system (FileSystemEntry objects of the browser)        *)
(*                                                                         *)
(*   1  a/            2  a/x      3  a/b/      4  a/y      5  a/b/z        *)
(*   6  w             7  c/ (empty)                                        *)
(***************************************************************************)
Entries == 1..7

NoEntry == 0    \* item.webkitGetAsEntry() returned null

EntryName(e) ==
    CASE e = 1 -> <<"a">> [] e = 2 -> <<"x">> [] e = 3 -> <<"b">>
      [] e = 4 -> <<"y">> [] e = 5 -> <<"z">> [] e = 6 -> <<"w">>
      [] e = 7 -> <<"c">>

\* entry.isDirectory; every other entry has entry.isFile
IsDirectory(e) == e \in {1, 3, 7}

\* the entries of a directory, in the order its reader enumerates them
ChildEntries(e) ==
    CASE e = 1 -> <<2, 3, 4>> [] e = 3 -> <<5>> [] OTHER -> <<>>

\* the directory whose readEntries callback starts e's walk (NoEntry: dropped)
ParentOf(e) ==
    IF \E d \in Entries : \E i \in DOMAIN ChildEntries(d) : ChildEntries(d)[i] = e
    THEN CHOOSE d \in Entries : \E i \in DOMAIN ChildEntries(d) : ChildEntries(d)[i] = e
    ELSE NoEntry

\* entries that can be dropped
DropRoots == {e \in Entries : ParentOf(e) = NoEntry}

\* what the single readEntries call of line 201 hands to its callback: the
\* reader delivers its entries in batches, and the code reads one batch
Delivered(d) ==
    SubSeq(ChildEntries(d), 1,
           IF Len(ChildEntries(d)) < ReadBatch THEN Len(ChildEntries(d)) ELSE ReadBatch)

DropLists ==
    { its \in UNION { [1..n -> DropRoots \cup {NoEntry}] : n \in 1..MaxItems } :
          \A i, j \in DOMAIN its : (i # j /\ its[i] # NoEntry) => its[i] # its[j] }

(***************************************************************************)
(* Idle values of the parts a specification leaves alone                   *)
(***************************************************************************)
BuilderIdle ==
    /\ structure = EmptyObject
    /\ fileIdx = 0
    /\ buildStatus = "running"

WalkerIdle ==
    /\ items = <<>>
    /\ entryState = [e \in Entries |-> "idle"]
    /\ entryPath = [e \in Entries |-> <<>>]
    /\ walkStatus = "idle"

UploadIdle ==
    /\ uploadProgress = <<>>
    /\ intervals = <<>>
    /\ mutations = <<>>

Calls == 1..MaxCalls

NoCall == [pc |-> "idle", accessToken |-> "", fileId |-> "",
           metadata |-> <<>>, requests |-> <<>>, result |-> "none"]

DriveIdle ==
    /\ oauth2Client = [access_token |-> ""]
    /\ calls = [c \in Calls |-> NoCall]

ListCalls == 1..MaxListCalls

\* an optional string argument: {} is undefined, {s} is the string s
Unset == {}

NoListCall == [pc |-> "idle", accessToken |-> "", folderId |-> Unset,
               pageToken |-> Unset, requests |-> <<>>,
               result |-> [kind |-> "none"]]

ListIdle == listCalls = [c \in ListCalls |-> NoListCall]

Exchanges == 1..MaxExchanges

\* Date.now() when the service starts
StartTime == 9

NoExchange == [pc |-> "idle", code |-> "", state |-> <<>>, decode |-> "none",
               userId |-> Undefined, requests |-> <<>>,
               result |-> [kind |-> "none"]]

OAuthIdle ==
    /\ clock = StartTime
    /\ issued = {}
    /\ exchanges = [e \in Exchanges |-> NoExchange]

\* an URL without parameters
NoParams == [google_drive_auth |-> "", access_token |-> Unset,
             refresh_token |-> Unset]

\* no item under the key in localStorage
NoBlob == {}

NoRequest == [kind |-> "none", token |-> ""]

ConnIdle ==
    /\ google_drive_tokens = NoBlob
    /\ googleDriveConnected = FALSE
    /\ session = "none"
    /\ authInit = "unmounted"
    /\ urlParams = NoParams
    /\ location = NoParams
    /\ connectFlow = "idle"
    /\ popup = "none"
    /\ revoked = {}
    /\ browserToken = ""
    /\ request = NoRequest
    /\ apiFailed = "no"
    /\ toast = ""

\* the first breadcrumb entry (google-drive-browser.tsx lines 86-88)
RootEntry == [id |-> "root", name |-> "My Drive"]

\* the useState initial values of GoogleDriveBrowser (lines 78-88)
DialogStateIdle ==
    /\ driveFiles = {}
    /\ selectedFiles = {}
    /\ loading = FALSE
    /\ importing = FALSE
    /\ searchQuery = ""
    /\ currentFolderId = "root"
    /\ folderHistory = <<RootEntry>>
    /\ fetches = <<>>
    /\ toasts = <<>>
    /\ reloadPending = FALSE

DialogIdle == isOpen = FALSE /\ DialogStateIdle

RestIdle == ListIdle /\ OAuthIdle /\ ConnIdle /\ DialogIdle

(***************************************************************************)
(* The builder as a state machine                                          *)
(***************************************************************************)
InitBuilder ==
    /\ files \in FileLists
    /\ BuilderIdle
    /\ WalkerIdle
    /\ UploadIdle
    /\ DriveIdle
    /\ RestIdle

\* one forEach iteration
BuildFile ==
    /\ buildStatus = "running"
    /\ fileIdx < Len(files)
    /\ LET r == InsertFile(structure, files[fileIdx + 1])
       IN /\ fileIdx' = fileIdx + 1
          /\ IF r.threw
             THEN /\ buildStatus' = "threw"
                  /\ UNCHANGED structure
             ELSE /\ structure' = r.value
                  /\ UNCHANGED buildStatus
    /\ UNCHANGED <<files, walkerVars, uploadVars, driveVars, restVars>>

\* return structure
BuildReturn ==
    /\ buildStatus = "running"
    /\ fileIdx = Len(files)
    /\ buildStatus' = "returned"
    /\ UNCHANGED <<files, structure, fileIdx, walkerVars, uploadVars, driveVars, restVars>>

NextBuilder == BuildFile \/ BuildReturn

SpecBuilder == InitBuilder /\ [][NextBuilder]_vars

(***************************************************************************)
(* The Entry Walker: processDataTransferItems (lines 178-248).             *)
(*                                                                         *)
(* A step is one event-loop turn: a call or a browser callback together    *)
(* with every promise reaction it triggers.  The state of an entry's       *)
(* processEntry promise is                                                 *)
(*   "idle"     processEntry not called                                    *)
(*   "reading"  file() / readEntries() called, callback not yet fired      *)
(*   "joining"  directory callback fired, awaiting Promise.all(children)   *)
(*   "resolved" resolve() called                                           *)
(*   "failed"   the browser reported an error; no error callback was       *)
(*              passed, so the promise stays pending                       *)
(***************************************************************************)
\* processEntry(entry, path) up to its first callback: both branches call
\* the browser (file / readEntries) and return a pending promise
ProcessEntryCalls(st, pth, es, path) ==
    [state |-> [e \in Entries |->
                    IF \E i \in DOMAIN es : es[i] = e THEN "reading" ELSE st[e]],
     path  |-> [e \in Entries |->
                    IF \E i \in DOMAIN es : es[i] = e THEN path ELSE pth[e]]]

\* resolve() of e's promise and the Promise.all reactions up the tree
\* (lines 193, 205-206)
RECURSIVE ResolveUp(_, _)
ResolveUp(st, e) ==
    LET st1 == [st EXCEPT ![e] = "resolved"]
        p   == ParentOf(e)
    IN IF /\ p # NoEntry
          /\ st1[p] = "joining"
          /\ \A i \in DOMAIN Delivered(p) : st1[Delivered(p)[i]] = "resolved"
       THEN ResolveUp(st1, p)
       ELSE st1

\* Promise.all(promises) of line 218 is fulfilled
TopLevelJoined(st) ==
    \A i \in DOMAIN items : items[i] = NoEntry \/ st[items[i]] = "resolved"

\* initialProgress of lines 224-228
InitialProgress(fs) ==
    [i \in DOMAIN fs |-> [fileName |-> RelativePathOf(fs[i]),
                          progress |-> 0,
                          status   |-> "uploading"]]

\* Math.random() * 15 and the threshold of the folder uploads (lines 160,
\* 161 and 236, 237)
FolderStep == 15

FolderThreshold == 60

\* setInterval(...) followed by mutate(variables, { onSettled }) (lines
\* 124-138, 156-170, 232-246): the interval belongs to the mutate call
StartMutation(hook, variables, step, threshold) ==
    /\ mutations' = Append(mutations,
           [hook |-> hook, files |-> variables.files,
            folderStructure |-> variables.folderStructure,
            status |-> "pending"])
    /\ intervals' = Append(intervals,
           [step |-> step, threshold |-> threshold,
            mutation |-> Len(mutations) + 1, active |-> TRUE])

\* lines 220-247, run when the await of line 218 resumes
Continuation(fs) ==
    IF Len(fs) > 0
    THEN LET r == buildFolderStructureFromFiles(fs)
         IN IF r.threw
            THEN /\ walkStatus' = "rejected"
                 /\ UNCHANGED uploadVars
            ELSE /\ walkStatus' = "done"
                 /\ uploadProgress' = InitialProgress(fs)
                 /\ StartMutation("uploadFolderMutation",
                                  [files |-> fs, folderStructure |-> r.value],
                                  FolderStep, FolderThreshold)
    ELSE /\ walkStatus' = "done"
         /\ UNCHANGED uploadVars

\* the promise reactions that follow a callback
AfterCallback(st, fs) ==
    /\ entryState' = st
    /\ files' = fs
    /\ IF TopLevelJoined(st)
       THEN Continuation(fs)
       ELSE UNCHANGED <<walkStatus, uploadVars>>

InitWalker ==
    /\ files = <<>>
    /\ BuilderIdle
    /\ items \in DropLists
    /\ entryState = [e \in Entries |-> "idle"]
    /\ entryPath = [e \in Entries |-> <<>>]
    /\ walkStatus = "idle"
    /\ UploadIdle
    /\ DriveIdle
    /\ RestIdle

\* the call: lines 179-218 up to the await
processDataTransferItems ==
    /\ walkStatus = "idle"
    /\ LET es == SelectSeq(items, LAMBDA e : e # NoEntry)
           c  == ProcessEntryCalls(entryState, entryPath, es, <<>>)
       IN /\ entryPath' = c.path
          /\ IF TopLevelJoined(c.state)
             THEN /\ entryState' = c.state
                  /\ files' = files
                  /\ Continuation(files)
             ELSE /\ entryState' = c.state
                  /\ walkStatus' = "walking"
                  /\ UNCHANGED <<files, uploadVars>>
    /\ UNCHANGED <<items, builderVars, driveVars, restVars>>

\* the callback of fileEntry.file (lines 186-194)
FileCallback(e) ==
    /\ ~IsDirectory(e)
    /\ entryState[e] = "reading"
    /\ LET file == [name |-> EntryName(e),
                    webkitRelativePath |-> entryPath[e] \o EntryName(e)]
       IN AfterCallback(ResolveUp(entryState, e), Append(files, file))
    /\ UNCHANGED <<items, entryPath, builderVars, driveVars, restVars>>

\* the callback of dirReader.readEntries (lines 201-207)
ReadEntriesCallback(d) ==
    /\ IsDirectory(d)
    /\ entryState[d] = "reading"
    /\ LET c   == ProcessEntryCalls(entryState, entryPath, Delivered(d),
                                    entryPath[d] \o EntryName(d) \o <<"/">>)
           st1 == [c.state EXCEPT ![d] = "joining"]
       IN /\ entryPath' = c.path
          /\ IF Delivered(d) = <<>>
             THEN AfterCallback(ResolveUp(st1, d), files)
             ELSE AfterCallback(st1, files)
    /\ UNCHANGED <<items, builderVars, driveVars, restVars>>

\* the browser fails to read a directory: readEntries was given no error
\* callback (line 201), so nothing of the program runs
ReadEntriesError(d) ==
    /\ IsDirectory(d)
    /\ entryState[d] = "reading"
    /\ entryState' = [entryState EXCEPT ![d] = "failed"]
    /\ UNCHANGED <<files, items, entryPath, walkStatus, builderVars, uploadVars, driveVars, restVars>>

\* the browser fails to read a file: file() was given no error callback
\* (line 186)
FileError(e) ==
    /\ ~IsDirectory(e)
    /\ entryState[e] = "reading"
    /\ entryState' = [entryState EXCEPT ![e] = "failed"]
    /\ UNCHANGED <<files, items, entryPath, walkStatus, builderVars, uploadVars, driveVars, restVars>>

NextWalker ==
    \/ processDataTransferItems
    \/ \E e \in Entries : FileCallback(e)
    \/ \E d \in Entries : ReadEntriesCallback(d)
    \/ \E d \in Entries : ReadEntriesError(d)
    \/ \E e \in Entries : FileError(e)

SpecWalker == InitWalker /\ [][NextWalker]_vars

(***************************************************************************)
(* The Drive adapter: GoogleDriveService.downloadFile                      *)
(* (src/server/services/google-drive.ts, lines 146-228).                   *)
(*                                                                         *)
(* A MIME type is a sequence of tokens, so that includes('google-apps')    *)
(* is computed.  A step is a call up to its first await, or an upstream    *)
(* answer together with the code that runs until the next await.           *)
(***************************************************************************)
GoogleApps == "google-apps"

Workspace(suffix) == <<"application/vnd.", GoogleApps, suffix>>

Pdf == <<"application/pdf">>

Xlsx == <<"application/vnd.openxmlformats-officedocument.spreadsheetml.sheet">>

Pptx == <<"application/vnd.openxmlformats-officedocument.presentationml.presentation">>

Png == <<"image/png">>

\* the MIME types upstream reports for a file
MimeTypes ==
    { Workspace(".document"), Workspace(".spreadsheet"),
      Workspace(".presentation"), Workspace(".drawing"),
      Workspace(".folder"), Workspace(".form"),
      Pdf, Png, <<"text/plain">> }

\* metadata.mimeType.includes('google-apps') (line 190)
includes(mimeType, token) == \E i \in DOMAIN mimeType : mimeType[i] = token

\* no export mapping: exportMap[googleMimeType] || null
Null == <<>>

\* getExportMimeType with the spreadsheet row of the table pointing at PDF
getExportMimeTypeSheetAsPdf(googleMimeType) ==
    CASE googleMimeType = Workspace(".document")     -> Pdf
      [] googleMimeType = Workspace(".spreadsheet")  -> Pdf
      [] googleMimeType = Workspace(".presentation") -> Pptx
      [] googleMimeType = Workspace(".drawing")      -> Png
      [] OTHER -> Null

\* getExportMimeType (lines 219-228)
getExportMimeType(googleMimeType) ==
    CASE googleMimeType = Workspace(".document")     -> Pdf
      [] googleMimeType = Workspace(".spreadsheet")  -> Xlsx
      [] googleMimeType = Workspace(".presentation") -> Pptx
      [] googleMimeType = Workspace(".drawing")      -> Png
      [] OTHER -> Null

AccessTokens == {"t1", "t2"}

FileIds == {"f1"}

\* an upstream request of the drive client; its Authorization is taken from
\* the shared oauth2Client when the request is made
Request(api, fileId, mimeType, client) ==
    [api |-> api, fileId |-> fileId, mimeType |-> mimeType,
     token |-> client.access_token, outcome |-> "pending"]

\* the outcome of the last request of a call
Answered(call, outcome) ==
    [call.requests EXCEPT ![Len(call.requests)].outcome = outcome]

\* downloadFile without its catch: what is thrown reaches the caller
RethrowDownload(call) == [call EXCEPT !.pc = "done", !.result = "threw"]

\* the catch of lines 210-213: whatever was thrown, downloadFile returns null
CatchDownload(call) == [call EXCEPT !.pc = "done", !.result = "null"]

\* lines 187-207, once the metadata is there: export, raw download or throw
ExportOrDownload(call, client) ==
    IF includes(call.metadata, GoogleApps)
    THEN LET exportMimeType == getExportMimeType(call.metadata)
         IN IF exportMimeType # Null
            THEN [call EXCEPT
                    !.pc = "awaitData",
                    !.requests = Append(@, Request("files.export", call.fileId,
                                                   exportMimeType, client))]
            ELSE CatchDownload(call)    \* throw new Error('Unsupported ...')
    ELSE [call EXCEPT
            !.pc = "awaitData",
            !.requests = Append(@, Request("files.get media", call.fileId,
                                           Null, client))]

\* downloadFile going on to the raw download although getFileMetadata gave
\* nothing
DownloadWithoutMetadata(call, client) ==
    [call EXCEPT
        !.pc = "awaitData",
        !.requests = Append(@, Request("files.get media", call.fileId,
                                       Null, client))]

\* line 185: if (!metadata) return null
NoMetadata(call, client) == [call EXCEPT !.pc = "done", !.result = "null"]

InitDrive ==
    /\ files = <<>>
    /\ BuilderIdle
    /\ WalkerIdle
    /\ UploadIdle
    /\ DriveIdle
    /\ RestIdle

\* downloadFile(accessToken, fileId) up to the await inside getFileMetadata
\* (lines 180-184, 148-154)
downloadFile(c, accessToken, fileId) ==
    /\ calls[c].pc = "idle"
    /\ LET client == [access_token |-> accessToken]
       IN /\ oauth2Client' = client
          /\ calls' = [calls EXCEPT ![c] =
                 [pc |-> "awaitMeta", accessToken |-> accessToken,
                  fileId |-> fileId, metadata |-> <<>>,
                  requests |-> <<Request("files.get", fileId, Null, client)>>,
                  result |-> "none"]]
    /\ UNCHANGED <<files, builderVars, walkerVars, uploadVars, restVars>>

\* files.get answers with the file's metadata (lines 156-168, 184-207)
MetadataResponse(c, mimeType) ==
    /\ calls[c].pc = "awaitMeta"
    /\ LET call == [calls[c] EXCEPT !.metadata = mimeType,
                                    !.requests = Answered(calls[c], "ok")]
       IN calls' = [calls EXCEPT ![c] = ExportOrDownload(call, oauth2Client)]
    /\ UNCHANGED <<files, builderVars, walkerVars, uploadVars, restVars, oauth2Client>>

\* files.get fails: getFileMetadata returns null (lines 169-172), and so
\* does downloadFile (line 185)
MetadataError(c) ==
    /\ calls[c].pc = "awaitMeta"
    /\ calls' = [calls EXCEPT ![c] =
           NoMetadata([calls[c] EXCEPT !.requests = Answered(calls[c], "error")],
                      oauth2Client)]
    /\ UNCHANGED <<files, builderVars, walkerVars, uploadVars, restVars, oauth2Client>>

\* the export or the download answers: return Buffer.from(response.data)
DataResponse(c) ==
    /\ calls[c].pc = "awaitData"
    /\ calls' = [calls EXCEPT ![c] =
           [calls[c] EXCEPT !.pc = "done", !.result = "bytes",
                            !.requests = Answered(calls[c], "ok")]]
    /\ UNCHANGED <<files, builderVars, walkerVars, uploadVars, restVars, oauth2Client>>

\* the export or the download fails: caught, null (lines 210-213)
DataError(c) ==
    /\ calls[c].pc = "awaitData"
    /\ calls' = [calls EXCEPT ![c] =
           CatchDownload([calls[c] EXCEPT !.requests = Answered(calls[c], "error")])]
    /\ UNCHANGED <<files, builderVars, walkerVars, uploadVars, restVars, oauth2Client>>

NextDrive ==
    \/ \E c \in Calls, t \in AccessTokens, f \in FileIds : downloadFile(c, t, f)
    \/ \E c \in Calls, m \in MimeTypes : MetadataResponse(c, m)
    \/ \E c \in Calls : MetadataError(c)
    \/ \E c \in Calls : DataResponse(c)
    \/ \E c \in Calls : DataError(c)

SpecDrive == InitDrive /\ [][NextDrive]_vars

(***************************************************************************)
(* GoogleDriveService.listFiles                                            *)
(***************************************************************************)
\* pageSize of the files.list request
PageSize == 50

\* the value of an optional string that is set
ValueOf(opt) == CHOOSE v \in opt : TRUE

\* if (folderId): undefined and the empty string are falsy
TruthyString(opt) == opt # Unset /\ opt # {""}

\* the query with the folderId branch lost: always the children of root
QueryOfRoot(folderId) == <<"trashed=false", " and '", "root", "' in parents">>

\* lines 104-110: the q parameter, as the pieces the code concatenates
Query(folderId) ==
    IF TruthyString(folderId)
    THEN <<"trashed=false", " and '", ValueOf(folderId), "' in parents">>
    ELSE <<"trashed=false", " and '", "root", "' in parents">>

FolderIdArgs == {Unset, {""}, {"root"}, {"fA"}, {"fB"}}

PageTokenArgs == {Unset, {"p1"}}

\* lines 112-118: the files.list request
ListRequest(folderId, pageToken, client) ==
    [api |-> "files.list", q |-> Query(folderId), pageSize |-> PageSize,
     pageToken |-> pageToken, orderBy |-> "folder,name",
     token |-> client.access_token, outcome |-> "pending"]

\* a row of response.data.files
Row(id, mimeType) == [id |-> id, mimeType |-> mimeType]

\* response.data.files: absent, or the rows of the page
ResponseRows ==
    { Unset,
      {<<>>},
      {<<Row("x1", Workspace(".folder"))>>},
      {<<Row("x1", Workspace(".document")), Row("x2", Workspace(".folder"))>>},
      {<<Row("x1", Pdf), Row("x2", Workspace(".spreadsheet"))>>} }

\* lines 120-131: (response.data.files || []).map(...)
MapRows(rows) ==
    LET rs == IF rows = Unset THEN <<>> ELSE ValueOf(rows)
    IN [i \in DOMAIN rs |->
           [id |-> rs[i].id, mimeType |-> rs[i].mimeType,
            isFolder |-> (rs[i].mimeType = Workspace(".folder"))]]

InitList ==
    /\ files = <<>>
    /\ BuilderIdle
    /\ WalkerIdle
    /\ UploadIdle
    /\ DriveIdle
    /\ RestIdle

\* listFiles(accessToken, folderId, pageToken) up to its await (lines 98-118)
listFiles(c, accessToken, folderId, pageToken) ==
    /\ listCalls[c].pc = "idle"
    /\ LET client == [access_token |-> accessToken]
       IN /\ oauth2Client' = client
          /\ listCalls' = [listCalls EXCEPT ![c] =
                 [pc |-> "awaitList", accessToken |-> accessToken,
                  folderId |-> folderId, pageToken |-> pageToken,
                  requests |-> <<ListRequest(folderId, pageToken, client)>>,
                  result |-> [kind |-> "none"]]]
    /\ UNCHANGED <<files, builderVars, walkerVars, uploadVars, calls, oauthVars, connVars, dialogVars>>

\* files.list answers (lines 120-136)
ListResponse(c, rows, nextPageToken) ==
    /\ listCalls[c].pc = "awaitList"
    /\ listCalls' = [listCalls EXCEPT ![c] =
           [listCalls[c] EXCEPT
               !.pc = "done",
               !.requests = Answered(listCalls[c], "ok"),
               !.result = [kind |-> "returned", files |-> MapRows(rows),
                           nextPageToken |-> nextPageToken]]]
    /\ UNCHANGED <<files, builderVars, walkerVars, uploadVars, driveVars, oauthVars, connVars, dialogVars>>

\* files.list fails: throw new Error('Failed to list Google Drive files')
ListError(c) ==
    /\ listCalls[c].pc = "awaitList"
    /\ listCalls' = [listCalls EXCEPT ![c] =
           [listCalls[c] EXCEPT
               !.pc = "done",
               !.requests = Answered(listCalls[c], "error"),
               !.result = [kind |-> "threw",
                           message |-> "Failed to list Google Drive files"]]]
    /\ UNCHANGED <<files, builderVars, walkerVars, uploadVars, driveVars, oauthVars, connVars, dialogVars>>

NextList ==
    \/ \E c \in ListCalls, t \in AccessTokens, f \in FolderIdArgs,
          p \in PageTokenArgs : listFiles(c, t, f, p)
    \/ \E c \in ListCalls, rows \in ResponseRows, n \in PageTokenArgs :
          ListResponse(c, rows, n)
    \/ \E c \in ListCalls : ListError(c)

SpecList == InitList /\ [][NextList]_vars

(***************************************************************************)
(* The OAuth state parameter: JSON.stringify, Buffer.from(...).toString    *)
(* ('base64') and back.  A text is a sequence of characters, a buffer a    *)
(* sequence of bytes, a base64 string a sequence of the indices 0..63 of   *)
(* its characters in the base64 alphabet, with Pad for '='.                *)
(***************************************************************************)
\* the characters of the texts handled here, with their UTF-8 byte
CodeTable ==
    << <<"{", 123>>, <<"}", 125>>, <<"\"", 34>>, <<":", 58>>, <<",", 44>>,
       <<"\\", 92>>,
       <<"0", 48>>, <<"1", 49>>, <<"2", 50>>, <<"3", 51>>, <<"4", 52>>,
       <<"5", 53>>, <<"6", 54>>, <<"7", 55>>, <<"8", 56>>, <<"9", 57>>,
       <<"I", 73>>, <<"a", 97>>, <<"d", 100>>, <<"e", 101>>, <<"i", 105>>,
       <<"l", 108>>, <<"m", 109>>, <<"n", 110>>, <<"p", 112>>, <<"r", 114>>,
       <<"s", 115>>, <<"t", 116>>, <<"u", 117>> >>

CodePairs == { CodeTable[i] : i \in DOMAIN CodeTable }

\* what toString() gives for a byte sequence that is no text of the table
Replacement == "?"

Code(ch) == (CHOOSE p \in CodePairs : p[1] = ch)[2]

CharOf(byte) ==
    IF \E p \in CodePairs : p[2] = byte
    THEN (CHOOSE p \in CodePairs : p[2] = byte)[1]
    ELSE Replacement

\* Buffer.from(text): the bytes of the text
Utf8Bytes(text) == [i \in DOMAIN text |-> Code(text[i])]

\* buffer.toString(): the text of the bytes
Utf8Text(bytes) == [i \in DOMAIN bytes |-> CharOf(bytes[i])]

\* the padding character '=' of base64
Pad == 64

\* buffer.toString('base64'): three bytes become four characters
RECURSIVE Base64Encode(_)
Base64Encode(bytes) ==
    IF Len(bytes) = 0 THEN <<>>
    ELSE IF Len(bytes) = 1
    THEN <<bytes[1] \div 4, (bytes[1] % 4) * 16, Pad, Pad>>
    ELSE IF Len(bytes) = 2
    THEN <<bytes[1] \div 4, (bytes[1] % 4) * 16 + bytes[2] \div 16,
           (bytes[2] % 16) * 4, Pad>>
    ELSE <<bytes[1] \div 4, (bytes[1] % 4) * 16 + bytes[2] \div 16,
           (bytes[2] % 16) * 4 + bytes[3] \div 64, bytes[3] % 64>>
         \o Base64Encode(SubSeq(bytes, 4, Len(bytes)))

\* the characters before the first '='
RECURSIVE BeforePad(_)
BeforePad(b64) ==
    IF b64 = <<>> \/ Head(b64) = Pad THEN <<>>
    ELSE <<Head(b64)>> \o BeforePad(Tail(b64))

RECURSIVE DecodeGroups(_)
DecodeGroups(d) ==
    IF Len(d) < 2 THEN <<>>
    ELSE IF Len(d) = 2 THEN <<d[1] * 4 + d[2] \div 16>>
    ELSE IF Len(d) = 3
    THEN <<d[1] * 4 + d[2] \div 16, (d[2] % 16) * 16 + d[3] \div 4>>
    ELSE <<d[1] * 4 + d[2] \div 16, (d[2] % 16) * 16 + d[3] \div 4,
           (d[3] % 4) * 64 + d[4]>>
         \o DecodeGroups(SubSeq(d, 5, Len(d)))

\* Buffer.from(b64, 'base64'): never throws, decodes what it can
Base64Decode(b64) == DecodeGroups(BeforePad(b64))

\* JSON.stringify of a string without the escaping of '"' and '\'
NoEscape(ch) == <<ch>>

\* JSON.stringify of one character of a string
Escape(ch) ==
    IF ch = "\"" THEN <<"\\", "\"">>
    ELSE IF ch = "\\" THEN <<"\\", "\\">>
    ELSE <<ch>>

RECURSIVE EscapeAll(_)
EscapeAll(str) ==
    IF str = <<>> THEN <<>> ELSE Escape(Head(str)) \o EscapeAll(Tail(str))

Quote(str) == <<"\"">> \o EscapeAll(str) \o <<"\"">>

Digits == <<"0", "1", "2", "3", "4", "5", "6", "7", "8", "9">>

\* JSON.stringify of a non-negative integer
RECURSIVE ToDigits(_)
ToDigits(n) ==
    IF n < 10 THEN <<Digits[n + 1]>>
    ELSE ToDigits(n \div 10) \o <<Digits[(n % 10) + 1]>>

UserIdKey == <<"u", "s", "e", "r", "I", "d">>

TimestampKey == <<"t", "i", "m", "e", "s", "t", "a", "m", "p">>

\* JSON.stringify({ userId, timestamp })
StringifyState(userId, timestamp) ==
    <<"{">> \o Quote(UserIdKey) \o <<":">> \o Quote(userId) \o <<",">>
    \o Quote(TimestampKey) \o <<":">> \o ToDigits(timestamp) \o <<"}">>

\* line 38: the state of generateAuthUrl
EncodeState(userId, timestamp) ==
    Base64Encode(Utf8Bytes(StringifyState(userId, timestamp)))

\* JSON.parse, for texts made of objects whose members are strings and
\* integers, strings, integers and null.  A result is [ok, next, value]:
\* the value read and the position after it, or a SyntaxError.
SyntaxError == [ok |-> FALSE, next |-> 0, value |-> Undefined]

Parsed(value, next) == [ok |-> TRUE, next |-> next, value |-> value]

JsString(chars) == [kind |-> "string", chars |-> chars]

JsNumber(n) == [kind |-> "number", n |-> n]

JsNull == [kind |-> "null"]

CharAt(text, i) == IF i \in DOMAIN text THEN text[i] ELSE ""

IsDigit(ch) == \E d \in DOMAIN Digits : Digits[d] = ch

DigitValue(ch) == (CHOOSE d \in DOMAIN Digits : Digits[d] = ch) - 1

RECURSIVE ParseStringBody(_, _, _)
ParseStringBody(text, i, acc) ==
    IF i > Len(text) THEN SyntaxError
    ELSE IF text[i] = "\"" THEN Parsed(JsString(acc), i + 1)
    ELSE IF text[i] = "\\"
    THEN IF CharAt(text, i + 1) \in {"\"", "\\"}
         THEN ParseStringBody(text, i + 2, Append(acc, text[i + 1]))
         ELSE SyntaxError
    ELSE ParseStringBody(text, i + 1, Append(acc, text[i]))

ParseString(text, i) ==
    IF CharAt(text, i) = "\"" THEN ParseStringBody(text, i + 1, <<>>)
    ELSE SyntaxError

RECURSIVE ParseDigits(_, _, _)
ParseDigits(text, i, n) ==
    IF IsDigit(CharAt(text, i))
    THEN ParseDigits(text, i + 1, n * 10 + DigitValue(text[i]))
    ELSE Parsed(JsNumber(n), i)

\* an integer: a single 0, or digits that do not start with 0
ParseNumber(text, i) ==
    IF CharAt(text, i) = "0" THEN Parsed(JsNumber(0), i + 1)
    ELSE IF IsDigit(CharAt(text, i)) THEN ParseDigits(text, i, 0)
    ELSE SyntaxError

ParseNull(text, i) ==
    IF i + 3 <= Len(text) /\ SubSeq(text, i, i + 3) = <<"n", "u", "l", "l">>
    THEN Parsed(JsNull, i + 4)
    ELSE SyntaxError

ParseScalar(text, i) ==
    IF CharAt(text, i) = "\"" THEN ParseString(text, i)
    ELSE IF CharAt(text, i) = "n" THEN ParseNull(text, i)
    ELSE ParseNumber(text, i)

\* the members of an object from position i on, up to the closing brace
RECURSIVE ParseMembers(_, _, _)
ParseMembers(text, i, obj) ==
    LET key == ParseString(text, i)
    IN IF ~key.ok \/ CharAt(text, key.next) # ":" THEN SyntaxError
       ELSE LET val == ParseScalar(text, key.next + 1)
            IN IF ~val.ok THEN SyntaxError
               ELSE LET o == SetProp(obj, key.value.chars, val.value)
                    IN IF CharAt(text, val.next) = ","
                       THEN ParseMembers(text, val.next + 1, o)
                       ELSE IF CharAt(text, val.next) = "}"
                       THEN Parsed(o, val.next + 1)
                       ELSE SyntaxError

ParseValue(text, i) ==
    IF CharAt(text, i) = "{"
    THEN IF CharAt(text, i + 1) = "}" THEN Parsed(EmptyObject, i + 2)
         ELSE ParseMembers(text, i + 1, EmptyObject)
    ELSE ParseScalar(text, i)

\* JSON.parse(text): the text must be one value and nothing more
JSONparse(text) ==
    LET r == ParseValue(text, 1)
    IN IF r.ok /\ r.next = Len(text) + 1 THEN r ELSE SyntaxError

\* lines 59-60: JSON.parse(Buffer.from(state, 'base64').toString()) and
\* const { userId } = stateData.  Destructuring null throws a TypeError;
\* a string or a number has no userId.
DecodeState(state) ==
    LET r == JSONparse(Utf8Text(Base64Decode(state)))
    IN IF ~r.ok \/ r.value.kind = "null"
       THEN [threw |-> TRUE, userId |-> Undefined]
       ELSE [threw |-> FALSE,
             userId |-> IF r.value.kind = "object"
                        THEN GetProp(r.value, UserIdKey)
                        ELSE Undefined]

(***************************************************************************)
(* GoogleDriveService.generateAuthUrl and exchangeCodeForTokens            *)
(***************************************************************************)
\* the ids of the signed-in users; the second needs escaping in JSON
UserIds == { <<"u", "1">>, <<"u", "\"", "\\">> }

Codes == {"c1"}

\* what getToken answers with
TokenSets == { [access_token |-> "t1", refresh_token |-> "r1"] }

\* base64 of a text
EncodeText(text) == Base64Encode(Utf8Bytes(text))

\* state values that no generateAuthUrl call produced: the empty string,
\* characters that decode to no JSON text, a cut-off state, null, an empty
\* object, an object without userId, and a state written for user u1 by
\* someone else
OtherStates ==
    { <<>>,
      <<1, 2, 3>>,
      EncodeText(<<"{">> \o Quote(UserIdKey) \o <<":">> \o Quote(<<"u", "1">>)),
      EncodeText(<<"n", "u", "l", "l">>),
      EncodeText(<<"{", "}">>),
      EncodeText(<<"{">> \o Quote(TimestampKey) \o <<":", "9", "}">>),
      EncodeState(<<"u", "1">>, 0) }

\* the generic result of the catch (lines 70-76)
GenericFailure ==
    [kind |-> "returned", success |-> FALSE, tokens |-> {}, userId |-> Undefined,
     error |-> "Failed to exchange authorization code"]

\* exchangeCodeForTokens without its catch
RethrowExchange(ex) ==
    [ex EXCEPT !.pc = "done", !.result = [kind |-> "threw"]]

\* the catch of lines 70-76
CatchExchange(ex) == [ex EXCEPT !.pc = "done", !.result = GenericFailure]

InitOAuth ==
    /\ files = <<>>
    /\ BuilderIdle
    /\ WalkerIdle
    /\ UploadIdle
    /\ DriveIdle
    /\ RestIdle

\* time passes on the server
ClockTick ==
    /\ clock < StartTime + MaxClock
    /\ clock' = clock + 1
    /\ UNCHANGED <<files, builderVars, walkerVars, uploadVars, driveVars,
                   listVars, connVars, dialogVars, issued, exchanges>>

\* generateAuthUrl(userId) (lines 37-51)
generateAuthUrl(userId) ==
    /\ Cardinality(issued) < MaxUrls
    /\ issued' = issued \cup
           {[userId |-> userId, timestamp |-> clock,
             state |-> EncodeState(userId, clock)]}
    /\ UNCHANGED <<files, builderVars, walkerVars, uploadVars, driveVars,
                   listVars, connVars, dialogVars, clock, exchanges>>

\* exchangeCodeForTokens(code, state) up to its await (lines 56-62), or to
\* its return when reading the state throws
exchangeCodeForTokens(e, code, state) ==
    /\ exchanges[e].pc = "idle"
    /\ LET d == DecodeState(state)
           ex == [exchanges[e] EXCEPT !.code = code, !.state = state]
       IN exchanges' = [exchanges EXCEPT ![e] =
              IF d.threw
              THEN CatchExchange([ex EXCEPT !.decode = "threw"])
              ELSE [ex EXCEPT !.pc = "awaitToken", !.decode = "ok",
                              !.userId = d.userId,
                              !.requests = <<[api |-> "getToken", code |-> code,
                                              outcome |-> "pending"]>>]]
    /\ UNCHANGED <<files, builderVars, walkerVars, uploadVars, driveVars,
                   listVars, connVars, dialogVars, clock, issued>>

\* getToken answers: setCredentials(tokens) and the success result
TokenResponse(e, tokens) ==
    /\ exchanges[e].pc = "awaitToken"
    /\ oauth2Client' = tokens
    /\ exchanges' = [exchanges EXCEPT ![e] =
           [exchanges[e] EXCEPT
               !.pc = "done",
               !.requests = Answered(exchanges[e], "ok"),
               !.result = [kind |-> "returned", success |-> TRUE,
                           tokens |-> {tokens}, userId |-> exchanges[e].userId,
                           error |-> ""]]]
    /\ UNCHANGED <<files, builderVars, walkerVars, uploadVars, calls,
                   listVars, connVars, dialogVars, clock, issued>>

\* getToken fails: caught (lines 70-76)
TokenError(e) ==
    /\ exchanges[e].pc = "awaitToken"
    /\ exchanges' = [exchanges EXCEPT ![e] =
           CatchExchange([exchanges[e] EXCEPT
                             !.requests = Answered(exchanges[e], "error")])]
    /\ UNCHANGED <<files, builderVars, walkerVars, uploadVars, driveVars,
                   listVars, connVars, dialogVars, clock, issued>>

NextOAuth ==
    \/ ClockTick
    \/ \E u \in UserIds : generateAuthUrl(u)
    \/ \E e \in Exchanges, c \in Codes,
          s \in { i.state : i \in issued } \cup OtherStates :
          exchangeCodeForTokens(e, c, s)
    \/ \E e \in Exchanges, t \in TokenSets : TokenResponse(e, t)
    \/ \E e \in Exchanges : TokenError(e)

SpecOAuth == InitOAuth /\ [][NextOAuth]_vars

(***************************************************************************)
(* The Drive connection of the client: AuthProvider (connection status,    *)
(* connect popup, disconnect, sign-out), the stored token blob and the     *)
(* Drive requests of GoogleDriveBrowser.  One page of the application and  *)
(* the popup it opens share localStorage and the Supabase session.         *)
(***************************************************************************)
\* the token pairs the provider hands out
TokenPair(t) == [accessToken |-> t,
                 refreshToken |-> IF t = "t1" THEN "r1" ELSE "r2"]

\* the URL the server redirects to after a completed authorization
CallbackParams(t) ==
    [google_drive_auth |-> "success", access_token |-> {t},
     refresh_token |-> {TokenPair(t).refreshToken}]

\* the URLs a page can be loaded with: plain, a completed authorization, a
\* success marker without tokens, a failed authorization
UrlParams ==
    { NoParams }
    \cup { CallbackParams(t) : t \in AccessTokens }
    \cup { [NoParams EXCEPT !.google_drive_auth = "success"],
           [NoParams EXCEPT !.google_drive_auth = "error"] }

\* urlParams.get('google_drive_auth') === 'success'
IsGoogleDriveCallback(params) == params.google_drive_auth = "success"

\* a status check that reports the connection whatever the storage holds
CheckAlwaysConnected(stored) == TRUE

\* checkGoogleDriveConnection (lines 477-480): !!stored
CheckGoogleDriveConnection(stored) == stored # NoBlob

\* what a change of the stored blob does to the record of failed calls
FailedAfter(newBlob) ==
    IF newBlob = google_drive_tokens THEN apiFailed ELSE "no"

\* a page load: every React state starts again, localStorage, the session
\* and the popup stay
PageLoad(params) ==
    /\ authInit' = "unmounted"
    /\ googleDriveConnected' = FALSE
    /\ urlParams' = NoParams
    /\ location' = params
    /\ connectFlow' = "idle"
    /\ browserToken' = ""
    /\ request' = NoRequest
    /\ isOpen' = FALSE

serverVars == <<files, builderVars, walkerVars, uploadVars, driveVars,
                listVars, oauthVars, dialogState>>

InitConn ==
    /\ files = <<>>
    /\ BuilderIdle
    /\ WalkerIdle
    /\ UploadIdle
    /\ DriveIdle
    /\ ListIdle
    /\ OAuthIdle
    /\ DialogIdle
    /\ google_drive_tokens \in {NoBlob} \cup { {TokenPair(t)} : t \in AccessTokens }
    /\ googleDriveConnected = FALSE
    /\ session \in {"none", "user"}
    /\ authInit = "unmounted"
    /\ urlParams = NoParams
    /\ location \in UrlParams
    /\ connectFlow = "idle"
    /\ popup = "none"
    /\ revoked = {}
    /\ browserToken = ""
    /\ request = NoRequest
    /\ apiFailed = "no"
    /\ toast = ""

\* the effects of the AuthProvider run (lines 398-469, 472-492): the URL is
\* read, initializeAuth starts, the auth listener is subscribed, the first
\* status check runs and the 30 s interval is set
Mount ==
    /\ authInit = "unmounted"
    /\ authInit' = "pending"
    /\ urlParams' = location
    /\ googleDriveConnected' = CheckGoogleDriveConnection(google_drive_tokens)
    /\ UNCHANGED <<serverVars, isOpen, google_drive_tokens, session, location,
                   connectFlow, popup, revoked, browserToken, request,
                   apiFailed, toast>>

\* initializeAuth after its awaits (lines 409-439); getCurrentSession gave
\* the session
InitializeAuthResume ==
    /\ authInit = "pending"
    /\ authInit' = "done"
    /\ IF IsGoogleDriveCallback(urlParams) /\ session = "user"
       THEN IF urlParams.access_token # Unset
            THEN LET blob == {[accessToken |-> ValueOf(urlParams.access_token),
                               refreshToken |-> ValueOf(urlParams.refresh_token)]}
                 IN /\ google_drive_tokens' = blob
                    /\ apiFailed' = FailedAfter(blob)
                    /\ location' = NoParams
                    /\ toast' = "Google Drive Connected"
            ELSE UNCHANGED <<google_drive_tokens, apiFailed, location, toast>>
       ELSE IF IsGoogleDriveCallback(urlParams)
            THEN /\ location' = NoParams
                 /\ UNCHANGED <<google_drive_tokens, apiFailed, toast>>
            ELSE UNCHANGED <<google_drive_tokens, apiFailed, location, toast>>
    /\ UNCHANGED <<serverVars, isOpen, googleDriveConnected, session, urlParams,
                   connectFlow, popup, revoked, browserToken, request>>

\* getCurrentSession throws: the catch of lines 440-443
InitializeAuthError ==
    /\ authInit = "pending"
    /\ authInit' = "done"
    /\ UNCHANGED <<serverVars, isOpen, google_drive_tokens, googleDriveConnected,
                   session, urlParams, location, connectFlow, popup, revoked,
                   browserToken, request, apiFailed, toast>>

\* onAuthStateChange, event SIGNED_IN (lines 455-459)
SignedIn ==
    /\ authInit \in {"pending", "done"}
    /\ session = "none"
    /\ session' = "user"
    /\ toast' = "Welcome back!"
    /\ UNCHANGED <<serverVars, isOpen, google_drive_tokens, googleDriveConnected,
                   authInit, urlParams, location, connectFlow, popup, revoked,
                   browserToken, request, apiFailed>>

\* onAuthStateChange, event SIGNED_OUT (lines 460-468)
SignedOut ==
    /\ authInit \in {"pending", "done"}
    /\ session = "user"
    /\ session' = "none"
    /\ google_drive_tokens' = NoBlob
    /\ apiFailed' = FailedAfter(NoBlob)
    /\ googleDriveConnected' = FALSE
    /\ toast' = "Signed out"
    /\ UNCHANGED <<serverVars, isOpen, authInit, urlParams, location, connectFlow,
                   popup, revoked, browserToken, request>>

\* the 30 s interval fires: checkGoogleDriveConnection (lines 475-484)
PeriodicCheck ==
    /\ authInit \in {"pending", "done"}
    /\ googleDriveConnected' = CheckGoogleDriveConnection(google_drive_tokens)
    /\ apiFailed' = IF apiFailed = "failed" THEN "checked" ELSE apiFailed
    /\ UNCHANGED <<serverVars, isOpen, google_drive_tokens, session, authInit,
                   urlParams, location, connectFlow, popup, revoked,
                   browserToken, request, toast>>

\* connectGoogleDrive up to its fetch of the auth URL (lines 548-556)
connectGoogleDrive ==
    /\ authInit \in {"pending", "done"}
    /\ connectFlow = "idle"
    /\ connectFlow' = "awaitAuthUrl"
    /\ UNCHANGED <<serverVars, isOpen, google_drive_tokens, googleDriveConnected,
                   session, authInit, urlParams, location, popup, revoked,
                   browserToken, request, apiFailed, toast>>

\* the auth URL request fails: catch of lines 598-605
AuthUrlError ==
    /\ connectFlow = "awaitAuthUrl"
    /\ connectFlow' = "idle"
    /\ toast' = "Authentication Failed"
    /\ UNCHANGED <<serverVars, isOpen, google_drive_tokens, googleDriveConnected,
                   session, authInit, urlParams, location, popup, revoked,
                   browserToken, request, apiFailed>>

\* the auth URL arrives and window.open gives the popup; checkClosed is set
\* (lines 562-595)
AuthUrlPopup ==
    /\ connectFlow = "awaitAuthUrl"
    /\ connectFlow' = "polling"
    /\ popup' = "consent"
    /\ UNCHANGED <<serverVars, isOpen, google_drive_tokens, googleDriveConnected,
                   session, authInit, urlParams, location, revoked,
                   browserToken, request, apiFailed, toast>>

\* the auth URL arrives and the popup is blocked: the page leaves for the
\* provider (lines 571-575)
AuthUrlRedirect ==
    /\ connectFlow = "awaitAuthUrl"
    /\ authInit' = "away"
    /\ connectFlow' = "idle"
    /\ UNCHANGED <<serverVars, isOpen, google_drive_tokens, googleDriveConnected,
                   session, urlParams, location, popup, revoked,
                   browserToken, request, apiFailed, toast>>

\* the provider sends the browser back to the application: a page load
RedirectReturn(params) ==
    /\ authInit = "away"
    /\ PageLoad(params)
    /\ UNCHANGED <<serverVars, google_drive_tokens, session, popup, revoked,
                   apiFailed, toast>>

\* the authorization in the popup completes: the application loads in the
\* popup with the callback URL and its initializeAuth stores the tokens
\* when the user is signed in (lines 413-424)
PopupCallback(t) ==
    /\ popup = "consent"
    /\ popup' = "app"
    /\ IF session = "user"
       THEN /\ google_drive_tokens' = {TokenPair(t)}
            /\ apiFailed' = FailedAfter({TokenPair(t)})
       ELSE UNCHANGED <<google_drive_tokens, apiFailed>>
    /\ UNCHANGED <<serverVars, isOpen, googleDriveConnected, session, authInit,
                   urlParams, location, connectFlow, revoked, browserToken,
                   request, toast>>

\* the popup is closed
PopupClose ==
    /\ popup \in {"consent", "app"}
    /\ popup' = "closed"
    /\ UNCHANGED <<serverVars, isOpen, google_drive_tokens, googleDriveConnected,
                   session, authInit, urlParams, location, connectFlow,
                   revoked, browserToken, request, apiFailed, toast>>

\* checkClosed finds the popup closed (lines 579-581)
CheckClosed ==
    /\ authInit \in {"pending", "done"}
    /\ connectFlow = "polling"
    /\ popup = "closed"
    /\ connectFlow' = "awaitRecheck"
    /\ UNCHANGED <<serverVars, isOpen, google_drive_tokens, googleDriveConnected,
                   session, authInit, urlParams, location, popup, revoked,
                   browserToken, request, apiFailed, toast>>

\* the clean-up after 5 minutes clears checkClosed (line 596)
PollTimeout ==
    /\ authInit \in {"pending", "done"}
    /\ connectFlow = "polling"
    /\ connectFlow' = "idle"
    /\ UNCHANGED <<serverVars, isOpen, google_drive_tokens, googleDriveConnected,
                   session, authInit, urlParams, location, popup, revoked,
                   browserToken, request, apiFailed, toast>>

\* one second after the popup was found closed (lines 583-592)
PopupRecheck ==
    /\ authInit \in {"pending", "done"}
    /\ connectFlow = "awaitRecheck"
    /\ connectFlow' = "idle"
    /\ IF google_drive_tokens # NoBlob
       THEN /\ googleDriveConnected' = TRUE
            /\ toast' = "Google Drive Connected"
       ELSE UNCHANGED <<googleDriveConnected, toast>>
    /\ UNCHANGED <<serverVars, isOpen, google_drive_tokens, session, authInit,
                   urlParams, location, popup, revoked, browserToken,
                   request, apiFailed>>

\* a disconnect that only sets the status and leaves the blob stored
DisconnectStatusOnly ==
    /\ authInit \in {"pending", "done"}
    /\ googleDriveConnected' = FALSE
    /\ toast' = "Disconnected"
    /\ UNCHANGED <<serverVars, isOpen, google_drive_tokens, apiFailed, session,
                   authInit, urlParams, location, connectFlow, popup, revoked,
                   browserToken, request>>

\* disconnectGoogleDrive (lines 608-615)
disconnectGoogleDrive ==
    /\ authInit \in {"pending", "done"}
    /\ google_drive_tokens' = NoBlob
    /\ apiFailed' = FailedAfter(NoBlob)
    /\ googleDriveConnected' = FALSE
    /\ toast' = "Disconnected"
    /\ UNCHANGED <<serverVars, isOpen, session, authInit, urlParams, location,
                   connectFlow, popup, revoked, browserToken, request>>

\* the provider revokes an access token
Revoke(t) ==
    /\ t \notin revoked
    /\ revoked' = revoked \cup {t}
    /\ UNCHANGED <<serverVars, isOpen, google_drive_tokens, googleDriveConnected,
                   session, authInit, urlParams, location, connectFlow, popup,
                   browserToken, request, apiFailed, toast>>

\* GoogleDriveBrowser opens (google-drive-browser.tsx lines 92-125): the
\* token comes from the URL or from the stored blob, and loadFiles starts;
\* with neither, the effect sets nothing and the component keeps the state
\* it had when it was closed
OpenBrowser ==
    /\ authInit \in {"pending", "done"}
    /\ ~isOpen /\ request = NoRequest
    /\ isOpen' = TRUE
    /\ IF IsGoogleDriveCallback(location) /\ location.access_token # Unset
       THEN /\ browserToken' = ValueOf(location.access_token)
            /\ request' = [kind |-> "list",
                           token |-> ValueOf(location.access_token)]
            /\ location' = NoParams
       ELSE IF google_drive_tokens # NoBlob
       THEN /\ browserToken' = ValueOf(google_drive_tokens).accessToken
            /\ request' = [kind |-> "list",
                           token |-> ValueOf(google_drive_tokens).accessToken]
            /\ UNCHANGED location
       ELSE UNCHANGED <<browserToken, request, location>>
    /\ UNCHANGED <<serverVars, google_drive_tokens, googleDriveConnected,
                   session, authInit, urlParams, connectFlow, popup, revoked,
                   apiFailed, toast>>

\* the dialog closes (onClose, UploadArea line 715): the component stays
\* mounted under UploadArea and keeps its accessToken
CloseBrowser ==
    /\ authInit \in {"pending", "done"}
    /\ isOpen /\ request = NoRequest
    /\ isOpen' = FALSE
    /\ UNCHANGED <<serverVars, google_drive_tokens, googleDriveConnected,
                   session, authInit, urlParams, location, connectFlow, popup,
                   revoked, browserToken, request, apiFailed, toast>>

RequestKinds == {"list", "search", "import"}

\* loadFiles (navigation), searchFiles or handleImport up to its fetch
\* (lines 157-178, 198-218, 264-290)
DriveRequest(kind) ==
    /\ authInit \in {"pending", "done"}
    /\ isOpen /\ browserToken # "" /\ request = NoRequest
    /\ request' = [kind |-> kind, token |-> browserToken]
    /\ UNCHANGED <<serverVars, isOpen, google_drive_tokens, googleDriveConnected,
                   session, authInit, urlParams, location, connectFlow, popup,
                   revoked, browserToken, apiFailed, toast>>

\* the request is answered with the rows: setFiles
DriveRequestOk ==
    /\ authInit \in {"pending", "done"}
    /\ request.kind \in {"list", "search"}
    /\ request.token \notin revoked
    /\ request' = NoRequest
    /\ UNCHANGED <<serverVars, isOpen, google_drive_tokens, googleDriveConnected,
                   session, authInit, urlParams, location, connectFlow, popup,
                   revoked, browserToken, apiFailed, toast>>

\* the import is answered: window.location.reload() (lines 292-305)
ImportOk ==
    /\ authInit \in {"pending", "done"}
    /\ request.kind = "import"
    /\ request.token \notin revoked
    /\ PageLoad(location)
    /\ toast' = "Import Successful"
    /\ UNCHANGED <<serverVars, google_drive_tokens, session, popup, revoked,
                   apiFailed>>

\* the toast of the catch of loadFiles, searchFiles and handleImport
FailureToast(kind) ==
    CASE kind = "list"   -> "Error"
      [] kind = "search" -> "Search Failed"
      [] kind = "import" -> "Import Failed"

\* the request fails (response not ok): the catch shows a toast (lines
\* 185-192, 225-232, 306-313)
DriveRequestFailed ==
    /\ authInit \in {"pending", "done"}
    /\ request # NoRequest
    /\ request' = NoRequest
    /\ toast' = FailureToast(request.kind)
    /\ apiFailed' =
          IF /\ google_drive_tokens # NoBlob
             /\ request.token = ValueOf(google_drive_tokens).accessToken
          THEN "failed" ELSE apiFailed
    /\ UNCHANGED <<serverVars, isOpen, google_drive_tokens, googleDriveConnected,
                   session, authInit, urlParams, location, connectFlow, popup,
                   revoked, browserToken>>

NextConn ==
    \/ Mount
    \/ InitializeAuthResume
    \/ InitializeAuthError
    \/ SignedIn
    \/ SignedOut
    \/ PeriodicCheck
    \/ connectGoogleDrive
    \/ AuthUrlError
    \/ AuthUrlPopup
    \/ AuthUrlRedirect
    \/ \E params \in UrlParams : RedirectReturn(params)
    \/ \E t \in AccessTokens \ revoked : PopupCallback(t)
    \/ PopupClose
    \/ CheckClosed
    \/ PollTimeout
    \/ PopupRecheck
    \/ disconnectGoogleDrive
    \/ \E t \in AccessTokens : Revoke(t)
    \/ OpenBrowser
    \/ CloseBrowser
    \/ \E kind \in RequestKinds : DriveRequest(kind)
    \/ DriveRequestOk
    \/ ImportOk
    \/ DriveRequestFailed

SpecConn == InitConn /\ [][NextConn]_vars

(***************************************************************************)
(* useFileUpload: the simulated progress and the settling of the uploads.  *)
(* Progress values are whole numbers; Math.random() * step is one of the   *)
(* increments below, chosen for each entry of each tick.                   *)
(***************************************************************************)
\* Math.random() * 20 and the threshold of uploadFiles (lines 128, 129)
FilesStep == 20

FilesThreshold == 50

\* the cap of Math.min(..., 90)
ProgressCap == 90

\* Math.random() * step lies in [0, step)
Increments(step) == {0, step - 1}

\* the progress of a tick without the cap
AdvanceUncapped(progress, inc) == progress + inc

\* Math.min(item.progress + Math.random() * step, 90)
Advance(progress, inc) ==
    IF progress + inc < ProgressCap THEN progress + inc ELSE ProgressCap

\* the callback of a progress interval: prev.map(item => ...)
TickOf(interval, prev, incs) ==
    [i \in DOMAIN prev |->
        [prev[i] EXCEPT
            !.progress = Advance(prev[i].progress, incs[i]),
            !.status = IF prev[i].progress > interval.threshold
                       THEN "processing" ELSE "uploading"]]

\* initialProgress of uploadFiles (lines 116-120): fileName is file.name
InitialProgressOfFiles(fs) ==
    [i \in DOMAIN fs |-> [fileName |-> fs[i].name,
                          progress |-> 0,
                          status   |-> "uploading"]]

\* the lists picked in the file input, in the folder input, and collected
\* from a drop
PickedFiles ==
    { <<PlainFile(<<"x">>)>>, <<PlainFile(<<"x">>), PlainFile(<<"y">>)>> }

PickedFolders ==
    { <<DirFile(<<"a", "/", "x">>)>>,
      <<DirFile(<<"a", "/", "x">>), DirFile(<<"a", "/", "b", "/", "x">>)>>,
      <<DirFile(<<"a", "/", "f", "i", "l", "e", "s", "/", "y">>),
        DirFile(<<"a", "/", "x">>)>> }

DroppedLists ==
    { <<>>,
      <<[name |-> <<"w">>, webkitRelativePath |-> <<"w">>]>>,
      <<[name |-> <<"x">>, webkitRelativePath |-> <<"a", "/", "x">>],
        [name |-> <<"y">>, webkitRelativePath |-> <<"a", "/", "y">>]>> }

\* isUploading || isFolderUploading: the inputs and the drop area are
\* disabled while the latest mutation of a hook is pending
Uploading ==
    \E m \in DOMAIN mutations :
        /\ mutations[m].status = "pending"
        /\ \A n \in DOMAIN mutations :
               n > m => mutations[n].hook # mutations[m].hook

\* the callbacks given to mutate() run only for the latest mutate call of
\* the hook
LatestOfHook(m) ==
    \A n \in DOMAIN mutations : n > m => mutations[n].hook # mutations[m].hook

\* onSettled of the mutate call: clearInterval(progressInterval)
ClearIntervalOf(m) ==
    [k \in DOMAIN intervals |->
        IF intervals[k].mutation = m /\ LatestOfHook(m)
        THEN [intervals[k] EXCEPT !.active = FALSE]
        ELSE intervals[k]]

\* uploads started and walks under way
Started == Len(mutations) + (IF walkStatus = "walking" THEN 1 ELSE 0)

uploadOthers == <<builderVars, driveVars, listVars, oauthVars, connState,
                  dialogVars>>

InitUpload ==
    /\ files = <<>>
    /\ BuilderIdle
    /\ WalkerIdle
    /\ UploadIdle
    /\ DriveIdle
    /\ RestIdle

\* uploadFiles(files) (lines 114-139), from the file input or from a drop
\* without directories
uploadFiles(fs) ==
    /\ Started < MaxUploads
    /\ ~Uploading
    /\ uploadProgress' = InitialProgressOfFiles(fs)
    /\ StartMutation("uploadMutation",
                     [files |-> fs, folderStructure |-> Undefined],
                     FilesStep, FilesThreshold)
    /\ UNCHANGED <<files, walkerVars, uploadOthers, toast>>

\* uploadFolder(files) with the File[] of the folder input (lines 141-170)
uploadFolder(fs) ==
    /\ Started < MaxUploads
    /\ ~Uploading
    /\ LET r == buildFolderStructureFromFiles(fs)
       IN IF r.threw
          THEN UNCHANGED uploadVars
          ELSE /\ uploadProgress' = InitialProgress(fs)
               /\ StartMutation("uploadFolderMutation",
                                [files |-> fs, folderStructure |-> r.value],
                                FolderStep, FolderThreshold)
    /\ UNCHANGED <<files, walkerVars, uploadOthers, toast>>

\* uploadFolder(items) with the items of a drop (lines 171-175): the walk
\* of processDataTransferItems starts; fs is what it will have collected
DropFolder(fs) ==
    /\ Started < MaxUploads
    /\ ~Uploading
    /\ walkStatus # "walking"
    /\ walkStatus' = "walking"
    /\ files' = fs
    /\ UNCHANGED <<items, entryState, entryPath, uploadVars, uploadOthers, toast>>

\* the walk is through: lines 218-247
DropResume ==
    /\ walkStatus = "walking"
    /\ Continuation(files)
    /\ UNCHANGED <<files, items, entryState, entryPath, uploadOthers, toast>>

\* a progress interval fires (lines 124-132, 156-164, 232-240)
ProgressTick(k, incs) ==
    /\ intervals[k].active
    /\ uploadProgress # <<>>
    /\ uploadProgress' = TickOf(intervals[k], uploadProgress, incs)
    /\ UNCHANGED <<files, walkerVars, intervals, mutations, uploadOthers, toast>>

\* the request of a mutation succeeds: onSuccess of the hook (lines 44-52,
\* 96-104), then onSettled of the mutate call
MutationSuccess(m) ==
    /\ mutations[m].status = "pending"
    /\ mutations' = [mutations EXCEPT ![m].status = "success"]
    /\ toast' = IF mutations[m].hook = "uploadMutation"
                THEN "Upload Successful" ELSE "Folder Upload Successful"
    /\ uploadProgress' = <<>>
    /\ intervals' = ClearIntervalOf(m)
    /\ UNCHANGED <<files, walkerVars, uploadOthers>>

\* the request of a mutation fails: onError of the hook (lines 53-60,
\* 105-112), then onSettled of the mutate call
MutationError(m) ==
    /\ mutations[m].status = "pending"
    /\ mutations' = [mutations EXCEPT ![m].status = "error"]
    /\ toast' = IF mutations[m].hook = "uploadMutation"
                THEN "Upload Failed" ELSE "Folder Upload Failed"
    /\ intervals' = ClearIntervalOf(m)
    /\ UNCHANGED <<files, walkerVars, uploadProgress, uploadOthers>>

NextUpload ==
    \/ \E fs \in PickedFiles : uploadFiles(fs)
    \/ \E fs \in PickedFolders : uploadFolder(fs)
    \/ \E fs \in DroppedLists : DropFolder(fs)
    \/ DropResume
    \/ \E k \in DOMAIN intervals :
          \E incs \in [DOMAIN uploadProgress -> Increments(intervals[k].step)] :
              ProgressTick(k, incs)
    \/ \E m \in DOMAIN mutations : MutationSuccess(m)
    \/ \E m \in DOMAIN mutations : MutationError(m)

SpecUpload == InitUpload /\ [][NextUpload]_vars

(***************************************************************************)
(* GoogleDriveBrowser with its token: listing, search, navigation,         *)
(* selection and import (google-drive-browser.tsx lines 77-319).  SpecConn *)
(* above keeps of the dialog only its token and one request; here the      *)
(* dialog's own state is kept and its fetches overlap as the code allows.  *)
(***************************************************************************)
MaxFetches == 3

MaxHistory == 3

\* a row of a listing as the dialog uses it: id, name, isFolder
DriveRow(id, isFolder) == [id |-> id, name |-> id, isFolder |-> isFolder]

\* the user's Drive: the rows GET /api/google-drive/files answers for a folder
FolderRows(folderId) ==
    CASE folderId = "root" -> {DriveRow("A", TRUE), DriveRow("f1", FALSE)}
      [] folderId = "A"    -> {DriveRow("f2", FALSE)}
      [] OTHER             -> {}

\* the values typed into the search box
Queries == {"", " ", "f"}

\* String.prototype.trim on the values of Queries
Trim(q) == IF q = " " THEN "" ELSE q

\* the rows GET /api/google-drive/search answers: the names containing q
SearchRows(q) ==
    IF q = "f" THEN {DriveRow("f1", FALSE), DriveRow("f2", FALSE)} ELSE {}

\* a fetch of the dialog: `arg` is the folder id, the query or the file ids
Fetch(kind, arg, token) ==
    [kind |-> kind, arg |-> arg, token |-> token, status |-> "pending",
     result |-> {}]

\* the body of a 2xx answer of import-multiple for these ids: every id is
\* counted once, as imported or as failed
ImportResults(fileIds) ==
    { [imported |-> i, failed |-> Cardinality(fileIds) - i] :
        i \in 0..Cardinality(fileIds) }

\* a toast of the dialog: the fetch it is about and the counts its
\* description states
Toast(title, k, imported, failed) ==
    [title |-> title, fetch |-> k, imported |-> imported, failed |-> failed]

\* the connected view is rendered: isAuthenticated is set with accessToken
\* (lines 100-101, 115-116) and never reset
Authenticated == isOpen /\ browserToken # ""

browserOthers == <<files, builderVars, walkerVars, uploadVars, driveVars,
                   listVars, oauthVars, google_drive_tokens,
                   googleDriveConnected, session, authInit, urlParams,
                   connectFlow, popup, revoked, request, apiFailed, toast>>

InitBrowser ==
    /\ files = <<>>
    /\ BuilderIdle
    /\ WalkerIdle
    /\ UploadIdle
    /\ DriveIdle
    /\ ListIdle
    /\ OAuthIdle
    /\ DialogIdle
    /\ google_drive_tokens = {TokenPair("t1")}
    /\ googleDriveConnected = TRUE
    /\ session = "user"
    /\ authInit = "done"
    /\ urlParams = NoParams
    /\ location = NoParams
    /\ connectFlow = "idle"
    /\ popup = "none"
    /\ revoked = {}
    /\ browserToken = ""
    /\ request = NoRequest
    /\ apiFailed = "no"
    /\ toast = ""

\* loadFiles up to its fetch (lines 157-178); without a token it returns and
\* the finally resets loading
loadFiles(token, folderId) ==
    LET authToken == IF token # "" THEN token ELSE browserToken IN
    IF authToken = ""
    THEN loading' = FALSE /\ UNCHANGED fetches
    ELSE /\ loading' = TRUE
         /\ fetches' = Append(fetches, Fetch("list", folderId, authToken))

\* the effect on isOpen (lines 92-125) when the dialog is opened
OpenDialog ==
    /\ ~isOpen
    /\ Len(fetches) < MaxFetches
    /\ isOpen' = TRUE
    /\ IF IsGoogleDriveCallback(location) /\ location.access_token # Unset
       THEN /\ browserToken' = ValueOf(location.access_token)
            /\ location' = NoParams
            /\ loadFiles(ValueOf(location.access_token), "root")
       ELSE IF google_drive_tokens # NoBlob
       THEN /\ browserToken' = ValueOf(google_drive_tokens).accessToken
            /\ loadFiles(ValueOf(google_drive_tokens).accessToken, "root")
            /\ UNCHANGED location
       ELSE UNCHANGED <<browserToken, location, loading, fetches>>
    /\ UNCHANGED <<browserOthers, driveFiles, selectedFiles, importing,
                   searchQuery, currentFolderId, folderHistory, toasts,
                   reloadPending>>

\* Cancel or the dialog's close button: onClose (lines 325, 499)
CloseDialog ==
    /\ isOpen
    /\ isOpen' = FALSE
    /\ UNCHANGED <<browserOthers, location, browserToken, dialogState>>

\* onChange of the search box (line 391)
SetSearchQuery(q) ==
    /\ Authenticated
    /\ q # searchQuery
    /\ searchQuery' = q
    /\ UNCHANGED <<browserOthers, location, browserToken, isOpen, driveFiles,
                   selectedFiles, loading, importing, currentFolderId,
                   folderHistory, fetches, toasts, reloadPending>>

\* searchFiles up to its fetch (lines 198-217), from the Search button or
\* from Enter in the search box, which loading does not disable
searchFiles ==
    /\ Authenticated
    /\ Len(fetches) < MaxFetches
    /\ IF Trim(searchQuery) = ""
       THEN UNCHANGED <<loading, fetches>>
       ELSE /\ loading' = TRUE
            /\ fetches' = Append(fetches,
                                 Fetch("search", searchQuery, browserToken))
    /\ UNCHANGED <<browserOthers, location, browserToken, isOpen, driveFiles,
                   selectedFiles, importing, searchQuery, currentFolderId,
                   folderHistory, toasts, reloadPending>>

\* the Clear button, rendered while searchQuery is not empty (lines 403-413)
ClearSearch ==
    /\ Authenticated
    /\ searchQuery # ""
    /\ Len(fetches) < MaxFetches
    /\ searchQuery' = ""
    /\ loadFiles(browserToken, currentFolderId)
    /\ UNCHANGED <<browserOthers, location, browserToken, isOpen, driveFiles,
                   selectedFiles, importing, currentFolderId, folderHistory,
                   toasts, reloadPending>>

\* navigateToFolder (lines 238-242), from a folder row; the rows are
\* rendered while loading is false (lines 419-431)
navigateToFolder(folderId, folderName) ==
    /\ Authenticated
    /\ ~loading
    /\ \E row \in driveFiles :
          row.isFolder /\ row.id = folderId /\ row.name = folderName
    /\ Len(fetches) < MaxFetches
    /\ Len(folderHistory) < MaxHistory
    /\ currentFolderId' = folderId
    /\ folderHistory' =
          Append(folderHistory, [id |-> folderId, name |-> folderName])
    /\ loadFiles(browserToken, folderId)
    /\ UNCHANGED <<browserOthers, location, browserToken, isOpen, driveFiles,
                   selectedFiles, importing, searchQuery, toasts,
                   reloadPending>>

\* navigateBack without the length test of line 245, reached with the root
\* entry only: the slice is empty and set, parentFolder.id throws
BackUnguarded ==
    /\ folderHistory' = SubSeq(folderHistory, 1, Len(folderHistory) - 1)
    /\ UNCHANGED <<currentFolderId, loading, fetches>>

\* navigateBack at the root: line 245 is false and nothing is done
BackAtRoot == UNCHANGED <<folderHistory, currentFolderId, loading, fetches>>

\* navigateBack (lines 244-252)
navigateBack ==
    /\ Authenticated
    /\ Len(fetches) < MaxFetches
    /\ IF Len(folderHistory) > 1
       THEN LET newHistory == SubSeq(folderHistory, 1, Len(folderHistory) - 1)
                parentFolder == newHistory[Len(newHistory)]
            IN /\ folderHistory' = newHistory
               /\ currentFolderId' = parentFolder.id
               /\ loadFiles(browserToken, parentFolder.id)
       ELSE BackAtRoot
    /\ UNCHANGED <<browserOthers, location, browserToken, isOpen, driveFiles,
                   selectedFiles, importing, searchQuery, toasts,
                   reloadPending>>

\* toggleFileSelection (lines 254-262), from a file row
toggleFileSelection(fileId) ==
    /\ Authenticated
    /\ ~loading
    /\ \E row \in driveFiles : ~row.isFolder /\ row.id = fileId
    /\ selectedFiles' =
          IF fileId \in selectedFiles
          THEN selectedFiles \ {fileId}
          ELSE selectedFiles \cup {fileId}
    /\ UNCHANGED <<browserOthers, location, browserToken, isOpen, driveFiles,
                   loading, importing, searchQuery, currentFolderId,
                   folderHistory, fetches, toasts, reloadPending>>

\* handleImport with a selection, up to its fetch (lines 267-290)
ImportStart ==
    /\ importing' = TRUE
    /\ fetches' = Append(fetches, Fetch("import", selectedFiles, browserToken))

\* handleImport (lines 264-290); the Import button is disabled while
\* importing (line 502)
handleImport ==
    /\ Authenticated
    /\ ~importing
    /\ Len(fetches) < MaxFetches
    /\ IF selectedFiles = {}
       THEN UNCHANGED <<importing, fetches>>
       ELSE ImportStart
    /\ UNCHANGED <<browserOthers, location, browserToken, isOpen, driveFiles,
                   selectedFiles, loading, searchQuery, currentFolderId,
                   folderHistory, toasts, reloadPending>>

\* the settled import without the finally of lines 315-317
NoFinally == UNCHANGED importing

\* finally { setImporting(false) } (lines 315-317)
ImportFinally == importing' = FALSE

\* the results an import fetch may be answered with
ResultsFor(fetch) ==
    IF fetch.kind = "import" THEN ImportResults(fetch.arg) ELSE {}

Settle(k, status, result) ==
    [fetches EXCEPT ![k].status = status, ![k].result = result]

\* the rows a list or search fetch is answered with
RowsOf(fetch) ==
    IF fetch.kind = "list" THEN FolderRows(fetch.arg) ELSE SearchRows(fetch.arg)

\* a list or search fetch is answered 2xx: setFiles, then the finally (lines
\* 180-184, 193-195, 220-224, 233-235)
FilesResponse(k) ==
    /\ fetches[k].kind \in {"list", "search"}
    /\ fetches[k].status = "pending"
    /\ fetches' = Settle(k, "ok", {})
    /\ driveFiles' = RowsOf(fetches[k])
    /\ loading' = FALSE
    /\ UNCHANGED <<browserOthers, location, browserToken, isOpen,
                   selectedFiles, importing, searchQuery, currentFolderId,
                   folderHistory, toasts, reloadPending>>

\* a list or search fetch fails: the catch shows its toast, then the finally
\* (lines 185-195, 225-235)
FilesError(k) ==
    /\ fetches[k].kind \in {"list", "search"}
    /\ fetches[k].status = "pending"
    /\ fetches' = Settle(k, "failed", {})
    /\ toasts' = Append(toasts, Toast(FailureToast(fetches[k].kind), k, {}, {}))
    /\ loading' = FALSE
    /\ UNCHANGED <<browserOthers, location, browserToken, isOpen, driveFiles,
                   selectedFiles, importing, searchQuery, currentFolderId,
                   folderHistory, reloadPending>>

\* the import is answered 2xx with `result` (lines 297-308, 315-317): the
\* reload is asked for, the selection is emptied, the toast states
\* fileIds.length, the dialog is closed
ImportResponse(k, result) ==
    /\ fetches[k].kind = "import"
    /\ fetches[k].status = "pending"
    /\ result \in ResultsFor(fetches[k])
    /\ fetches' = Settle(k, "ok", {result})
    /\ reloadPending' = TRUE
    /\ selectedFiles' = {}
    /\ toasts' = Append(toasts, Toast("Import Successful", k,
                                      {Cardinality(fetches[k].arg)}, {}))
    /\ isOpen' = FALSE
    /\ ImportFinally
    /\ UNCHANGED <<browserOthers, location, browserToken, driveFiles, loading,
                   searchQuery, currentFolderId, folderHistory>>

\* the import fails (lines 292-295, 309-317)
ImportError(k) ==
    /\ fetches[k].kind = "import"
    /\ fetches[k].status = "pending"
    /\ fetches' = Settle(k, "failed", {})
    /\ toasts' = Append(toasts, Toast(FailureToast("import"), k, {}, {}))
    /\ ImportFinally
    /\ UNCHANGED <<browserOthers, location, browserToken, isOpen, driveFiles,
                   selectedFiles, loading, searchQuery, currentFolderId,
                   folderHistory, reloadPending>>

\* the page reloads (line 300): every component starts again, its fetches
\* and toasts go with the old page
Reload ==
    /\ reloadPending
    /\ browserToken' = ""
    /\ isOpen' = FALSE
    /\ driveFiles' = {}
    /\ selectedFiles' = {}
    /\ loading' = FALSE
    /\ importing' = FALSE
    /\ searchQuery' = ""
    /\ currentFolderId' = "root"
    /\ folderHistory' = <<RootEntry>>
    /\ fetches' = <<>>
    /\ toasts' = <<>>
    /\ reloadPending' = FALSE
    /\ UNCHANGED <<browserOthers, location>>

NextBrowser ==
    \/ OpenDialog
    \/ CloseDialog
    \/ \E q \in Queries : SetSearchQuery(q)
    \/ searchFiles
    \/ ClearSearch
    \/ \E row \in driveFiles : navigateToFolder(row.id, row.name)
    \/ navigateBack
    \/ \E row \in driveFiles : toggleFileSelection(row.id)
    \/ handleImport
    \/ \E k \in DOMAIN fetches : FilesResponse(k)
    \/ \E k \in DOMAIN fetches : FilesError(k)
    \/ \E k \in DOMAIN fetches :
          \E result \in ResultsFor(fetches[k]) : ImportResponse(k, result)
    \/ \E k \in DOMAIN fetches : ImportError(k)
    \/ Reload

SpecBrowser == InitBrowser /\ [][NextBrowser]_vars

(***************************************************************************)
(* Reading a built tree (used by the properties below)                     *)
(***************************************************************************)
\* the children map reached from `obj` through the folder names of `chain`
RECURSIVE MapAt(_, _)
MapAt(obj, chain) ==
    IF chain = <<>> THEN obj
    ELSE IF obj.kind # "object" THEN Undefined
    ELSE MapAt(ChildrenOf(GetProp(obj, Head(chain))), Tail(chain))

\* the file collection of a children map: its `files` array
FileCollection(obj) ==
    IF obj.kind = "object" /\ GetProp(obj, FilesKey).kind = "array"
    THEN GetProp(obj, FilesKey).items
    ELSE <<>>

\* how often x occurs in the sequence s
Occurrences(s, x) == Cardinality({j \in DOMAIN s : s[j] = x})

RECURSIVE SumOver(_, _)
SumOver(S, f) ==
    IF S = {} THEN 0
    ELSE LET x == CHOOSE y \in S : TRUE IN f[x] + SumOver(S \ {x}, f)

\* number of file entries recorded anywhere in the tree
RECURSIVE CountEntries(_)
CountEntries(v) ==
    IF v.kind = "array" THEN Len(v.items)
    ELSE IF v.kind = "node" THEN CountEntries(v.children) + CountEntries(v.files)
    ELSE IF v.kind = "object"
    THEN SumOver(DOMAIN v.props, [k \in DOMAIN v.props |-> CountEntries(v.props[k])])
    ELSE 0

\* number of folder nodes in the tree
RECURSIVE CountFolders(_)
CountFolders(v) ==
    IF v.kind = "node" THEN 1 + CountFolders(v.children)
    ELSE IF v.kind = "object"
    THEN SumOver(DOMAIN v.props, [k \in DOMAIN v.props |-> CountFolders(v.props[k])])
    ELSE 0

PathParts(file) == split(RelativePathOf(file))

\* the folder names of a file: all path parts but the last
FolderChain(file) == SubSeq(PathParts(file), 1, Len(PathParts(file)) - 1)

EntryOf(file) == [name |-> PathParts(file)[Len(PathParts(file))],
                  originalFile |-> file,
                  relativePath |-> RelativePathOf(file)]

\* the distinct folder paths named by the files of fs
FolderPaths(fs) ==
    UNION { { SubSeq(FolderChain(fs[i]), 1, n) : n \in 1..Len(FolderChain(fs[i])) } :
                i \in DOMAIN fs }

HasSlash(s) == \E i \in DOMAIN s : s[i] = "/"

\* the tree with every array read as a bag (order of siblings forgotten)
RECURSIVE Canon(_)
Canon(v) ==
    IF v.kind = "array"
    THEN [kind |-> "bag",
          count |-> [e \in {v.items[j] : j \in DOMAIN v.items} |->
                         Occurrences(v.items, e)]]
    ELSE IF v.kind = "node"
    THEN [v EXCEPT !.children = Canon(v.children), !.files = Canon(v.files)]
    ELSE IF v.kind = "object"
    THEN [v EXCEPT !.props = [k \in DOMAIN v.props |-> Canon(v.props[k])]]
    ELSE v

\* all orderings of the list fs
Orderings(fs) ==
    { [i \in DOMAIN fs |-> fs[p[i]]] :
          p \in { q \in [DOMAIN fs -> DOMAIN fs] :
                      \A a, b \in DOMAIN fs : a # b => q[a] # q[b] } }

(***************************************************************************)
(* Folder Structure Builder: properties                                    *)
(***************************************************************************)
\* C1: when the builder has finished it has returned a tree in which every
\* input file is recorded, as often as it occurs in the input, with name sn
\* and its relativePath in the file collection of the node reached through
\* s1..s(n-1), and the tree holds no other entry.
C1_Placement ==
    buildStatus # "running" =>
        /\ buildStatus = "returned"
        /\ \A i \in DOMAIN files :
               /\ MapAt(structure, FolderChain(files[i])).kind = "object"
               /\ Occurrences(FileCollection(MapAt(structure, FolderChain(files[i]))),
                              EntryOf(files[i]))
                      = Occurrences(files, files[i])
        /\ CountEntries(structure) = Len(files)

\* C2: for a list of distinct relative paths the finished builder has
\* returned a tree with exactly one folder node per distinct folder path.
C2_OneNodePerFolderPath ==
    (/\ buildStatus # "running"
     /\ \A i, j \in DOMAIN files :
            i # j => RelativePathOf(files[i]) # RelativePathOf(files[j])) =>
        /\ buildStatus = "returned"
        /\ \A fp \in FolderPaths(files) : MapAt(structure, fp).kind = "object"
        /\ CountFolders(structure) = Cardinality(FolderPaths(files))

\* C3: the builder is order-independent: every ordering of the input gives
\* the outcome of the run, the same failure or a tree with the same folder
\* nodes and the same files under each node.
C3_OrderIndependent ==
    buildStatus # "running" =>
        \A P \in Orderings(files) :
            LET r == buildFolderStructureFromFiles(P)
            IN /\ r.threw <=> (buildStatus = "threw")
               /\ ~r.threw => Canon(r.value) = Canon(structure)

\* a returned tree that another ordering of the same files builds with its
\* siblings in another order
C3_Witness ==
    /\ buildStatus = "returned"
    /\ CountFolders(structure) > 0
    /\ \E P \in Orderings(files) :
           /\ P # files
           /\ buildFolderStructureFromFiles(P).value # structure

\* C4: every file whose relative path has no '/' is, once its iteration has
\* run, in the root's file collection.
C4_RootFile ==
    \A i \in 1..fileIdx :
        ~HasSlash(RelativePathOf(files[i])) =>
            Occurrences(FileCollection(structure), EntryOf(files[i])) > 0

\* C5: a file with an empty relative path makes the builder fail: it is
\* placed nowhere and no tree is returned.
C5_EmptyPathFails ==
    \A i \in 1..fileIdx :
        RelativePathOf(files[i]) = <<>> =>
            /\ buildStatus = "threw"
            /\ CountEntries(structure) < i

(***************************************************************************)
(* Entry Walker: properties                                                *)
(***************************************************************************)
\* the names of e's ancestor directories from the drop root, joined by '/',
\* followed by e's own name
RECURSIVE FullPath(_)
FullPath(e) ==
    IF ParentOf(e) = NoEntry THEN EntryName(e)
    ELSE FullPath(ParentOf(e)) \o <<"/">> \o EntryName(e)

RECURSIVE DropRootOf(_)
DropRootOf(e) == IF ParentOf(e) = NoEntry THEN e ELSE DropRootOf(ParentOf(e))

\* the leaf files of the dropped trees
DroppedFiles ==
    { e \in Entries : /\ ~IsDirectory(e)
                      /\ \E i \in DOMAIN items : items[i] = DropRootOf(e) }

ExpectedFile(e) == [name |-> EntryName(e), webkitRelativePath |-> FullPath(e)]

WalkSettled == walkStatus \in {"done", "rejected"}

\* C6: when the walk has completed, the collected list holds exactly the leaf
\* files of the dropped trees, each once, each with the '/'-joined names of
\* its ancestors and its own name as relative path.
C6_WalkResult ==
    WalkSettled =>
        /\ \A e \in DroppedFiles : Occurrences(files, ExpectedFile(e)) = 1
        /\ Len(files) = Cardinality(DroppedFiles)

\* C7: a directory's walk is resolved only when the walks of all its entries
\* are, the walk as a whole only when every dropped item's is, and an upload
\* is started only with every file of the dropped trees in the list.
C7_JoinBarrier ==
    /\ \A d \in Entries :
           (IsDirectory(d) /\ entryState[d] = "resolved") =>
               \A i \in DOMAIN ChildEntries(d) :
                   entryState[ChildEntries(d)[i]] = "resolved"
    /\ WalkSettled =>
           \A i \in DOMAIN items :
               items[i] = NoEntry \/ entryState[items[i]] = "resolved"
    /\ \A m \in DOMAIN mutations :
           \A e \in DroppedFiles : Occurrences(mutations[m].files, ExpectedFile(e)) = 1

\* C8: once reading a directory has failed, the walk is rejected and no
\* upload has been started.
C8_FailureRejects ==
    (\E d \in Entries : IsDirectory(d) /\ entryState[d] = "failed") =>
        /\ walkStatus = "rejected"
        /\ mutations = <<>>

(***************************************************************************)
(* Drive adapter, downloadFile: properties                                 *)
(***************************************************************************)
\* a native workspace type: application/vnd.google-apps.<kind>
IsWorkspaceType(m) ==
    Len(m) = 3 /\ m[1] = "application/vnd." /\ m[2] = "google-apps"

\* the fixed export targets the specification lists
FixedTargets ==
    { <<".document", Pdf>>, <<".spreadsheet", Xlsx>>,
      <<".presentation", Pptx>>, <<".drawing", Png>> }

HasTarget(m) == \E t \in FixedTargets : t[1] = m[3]

TargetOf(m) == (CHOOSE t \in FixedTargets : t[1] = m[3])[2]

\* the requests a call made after its metadata request
DataRequests(call) == SubSeq(call.requests, 2, Len(call.requests))

C10_NullOnFailure ==
    \A c \in Calls :
        LET call == calls[c]
            reqs == call.requests
        IN /\ call.pc # "done" => call.result = "none"
           /\ call.pc = "done" =>
                /\ call.result \in {"null", "bytes"}
                /\ reqs[1].outcome = "error" => call.result = "null"
                /\ (call.metadata # <<>> /\ Len(reqs) = 1) => call.result = "null"
                /\ (Len(reqs) = 2 /\ reqs[2].outcome = "error") => call.result = "null"
                /\ call.result = "bytes" =>
                       /\ Len(reqs) = 2
                       /\ reqs[2].api \in {"files.export", "files.get media"}
                       /\ reqs[2].outcome = "ok"

\* one call has returned null after a failed export or download, another
\* after an unsupported workspace type
C10_Witness ==
    /\ \E c \in Calls :
           /\ calls[c].pc = "done" /\ calls[c].result = "null"
           /\ Len(calls[c].requests) = 2
           /\ calls[c].requests[2].outcome = "error"
    /\ \E c \in Calls :
           /\ calls[c].pc = "done" /\ calls[c].result = "null"
           /\ calls[c].metadata = Workspace(".folder")

\* C11: within one downloadFile call the metadata request is the first
\* request and is answered before the export or media request exists; a
\* call whose metadata request failed issues no export and no download.
C11_MetadataFirst ==
    \A c \in Calls :
        LET call == calls[c]
            reqs == call.requests
        IN call.pc # "idle" =>
             /\ Len(reqs) \in {1, 2}
             /\ reqs[1].api = "files.get"
             /\ call.pc = "awaitMeta" <=> reqs[1].outcome = "pending"
             /\ reqs[1].outcome = "pending" => Len(reqs) = 1
             /\ reqs[1].outcome = "error" => Len(reqs) = 1 /\ call.metadata = <<>>
             /\ Len(reqs) = 2 =>
                    /\ reqs[1].outcome = "ok"
                    /\ call.metadata # <<>>
                    /\ reqs[2].api \in {"files.export", "files.get media"}

\* one call returned after its metadata request failed while another, whose
\* metadata was answered, has its export or download in flight
C11_Witness ==
    /\ \E c \in Calls :
           /\ calls[c].pc = "done"
           /\ calls[c].requests[1].outcome = "error"
    /\ \E c \in Calls :
           /\ calls[c].pc = "awaitData"
           /\ calls[c].requests[1].outcome = "ok"

\* C12: every listFiles call sends one files.list request that asks for the
\* non-trashed children of root when no folderId is given and of exactly the
\* given id otherwise, with page size 50, ordering 'folder,name' and the
\* caller's pageToken; a returned row is a folder exactly when its MIME
\* type is application/vnd.google-apps.folder.
C12_ListQuery ==
    \A c \in ListCalls :
        LET call == listCalls[c]
            given == call.folderId \notin {Unset, {""}}
        IN call.pc # "idle" =>
             /\ Len(call.requests) = 1
             /\ LET req == call.requests[1]
                IN /\ req.api = "files.list"
                   /\ req.q[1] = "trashed=false"
                   /\ req.q[2] = " and '" /\ req.q[4] = "' in parents"
                   /\ Len(req.q) = 4
                   /\ ~given => req.q[3] = "root"
                   /\ given => {req.q[3]} = call.folderId
                   /\ req.pageSize = 50
                   /\ req.orderBy = "folder,name"
                   /\ req.pageToken = call.pageToken
             /\ call.result.kind = "returned" =>
                    \A i \in DOMAIN call.result.files :
                        call.result.files[i].isFolder <=>
                            call.result.files[i].mimeType =
                                <<"application/vnd.", "google-apps", ".folder">>

\* a listing of folder fA with a page token has returned a page holding a
\* folder row and a row that is not a folder
C12_Witness ==
    \E c \in ListCalls :
        /\ listCalls[c].folderId = {"fA"}
        /\ listCalls[c].pageToken = {"p1"}
        /\ listCalls[c].result.kind = "returned"
        /\ \E i, j \in DOMAIN listCalls[c].result.files :
               /\ listCalls[c].result.files[i].isFolder
               /\ ~listCalls[c].result.files[j].isFolder

\* C13: an exchange whose state a generateAuthUrl(userId) call produced never
\* fails at reading the state, and when the upstream exchange succeeds it
\* reports success with exactly that userId, for every presentation of the
\* state and however long after it was issued.
C13_StateRoundTrip ==
    \A e \in Exchanges : \A i \in issued :
        LET ex == exchanges[e]
        IN (ex.pc # "idle" /\ ex.state = i.state) =>
             /\ ex.decode = "ok"
             /\ ex.userId.kind = "string"
             /\ ex.userId.chars = i.userId
             /\ (ex.pc = "done" /\ ex.requests[1].outcome = "ok") =>
                    /\ ex.result.kind = "returned"
                    /\ ex.result.success
                    /\ ex.result.userId.kind = "string"
                    /\ ex.result.userId.chars = i.userId

\* the state issued for the user whose id needs escaping has been exchanged
\* successfully twice, after the clock moved on from its timestamp
C13_Witness ==
    \E i \in issued :
        /\ i.userId = <<"u", "\"", "\\">>
        /\ clock > i.timestamp
        /\ \A e \in Exchanges :
               /\ exchanges[e].state = i.state
               /\ exchanges[e].pc = "done"
               /\ exchanges[e].result.success

\* C14: exchangeCodeForTokens never throws, and it returns the same generic
\* error result (success false, no tokens, no userId) when reading the state
\* throws and when the upstream exchange throws.
C14_GenericFailure ==
    \A e \in Exchanges :
        LET ex == exchanges[e]
        IN /\ ex.result.kind \in {"none", "returned"}
           /\ ex.pc = "done" => ex.result.kind = "returned"
           /\ (ex.pc = "done" /\ ex.decode = "threw") =>
                  /\ ex.requests = <<>>
                  /\ ex.result = GenericFailure
           /\ (ex.pc = "done" /\ ex.requests # <<>>
                              /\ ex.requests[1].outcome = "error") =>
                  ex.result = GenericFailure
           /\ (ex.result.kind = "returned" /\ ~ex.result.success) =>
                  /\ ex.result.tokens = {}
                  /\ ex.result.userId.kind = "undefined"
                  /\ ex.result.error = "Failed to exchange authorization code"

\* one exchange failed at reading its state, another at the upstream
\* exchange, and their results are the same
C14_Witness ==
    \E e1, e2 \in Exchanges :
        /\ exchanges[e1].pc = "done" /\ exchanges[e1].decode = "threw"
        /\ exchanges[e2].pc = "done" /\ exchanges[e2].decode = "ok"
        /\ exchanges[e2].requests[1].outcome = "error"
        /\ exchanges[e1].result = exchanges[e2].result

\* C15: an exchange reports success only for a state that decodes to JSON
\* with a userId field.
C15_SuccessNeedsUserId ==
    \A e \in Exchanges :
        (exchanges[e].result.kind = "returned" /\ exchanges[e].result.success)
            => exchanges[e].result.userId.kind # "undefined"

\* C16: every status check (on mount, every 30 s, after the auth popup
\* closed) leaves the status Connected exactly when the token blob is in
\* localStorage and sends no request; no step turns the status to Connected
\* while the blob is absent.
C16_StatusFromBlob ==
    [][ /\ (Mount \/ PeriodicCheck \/ PopupRecheck) =>
              /\ googleDriveConnected' <=> google_drive_tokens # NoBlob
              /\ request' = request
              /\ google_drive_tokens' = google_drive_tokens
        /\ (~googleDriveConnected /\ googleDriveConnected') =>
              /\ google_drive_tokens # NoBlob
              /\ Mount \/ PeriodicCheck \/ PopupRecheck ]_vars

\* the check after the popup closed has found the blob the popup stored and
\* set the status, on a page that was not loaded from a callback URL
C16_Witness ==
    /\ toast = "Google Drive Connected"
    /\ urlParams = NoParams
    /\ popup = "closed"
    /\ connectFlow = "idle"
    /\ googleDriveConnected
    /\ google_drive_tokens # NoBlob

\* C17: disconnectGoogleDrive removes the blob and sets the status to
\* Disconnected in one step; while the blob is absent the status stays
\* Disconnected through every check, and the blob comes back only when an
\* auth flow completes (a callback URL with tokens is read by
\* initializeAuth, on the page or in the popup).
C17_Disconnect ==
    [][ /\ disconnectGoogleDrive =>
              /\ google_drive_tokens' = NoBlob
              /\ ~googleDriveConnected'
        /\ (~googleDriveConnected /\ google_drive_tokens = NoBlob) =>
              ~googleDriveConnected'
        /\ (google_drive_tokens = NoBlob /\ google_drive_tokens' # NoBlob) =>
              \/ /\ InitializeAuthResume
                 /\ IsGoogleDriveCallback(urlParams)
                 /\ urlParams.access_token # Unset
              \/ \E t \in AccessTokens : PopupCallback(t) ]_vars

\* after a disconnect a new auth flow in the popup stored tokens and a
\* periodic check reports Connected again
C17_Witness ==
    /\ toast = "Disconnected"
    /\ popup \in {"app", "closed"}
    /\ googleDriveConnected
    /\ google_drive_tokens # NoBlob

\* the cached token is revoked, a Drive request made with it has failed, and
\* a status check has run since
FailedTokenChecked ==
    /\ google_drive_tokens # NoBlob
    /\ ValueOf(google_drive_tokens).accessToken \in revoked
    /\ apiFailed = "checked"

\* C18: once a Drive call (list, search, import) made with the revoked but
\* cached token has failed, the connection is reported as Disconnected.
C18_FailedCallDisconnects == FailedTokenChecked => ~googleDriveConnected

\* C19: whatever started the upload (uploadFiles, uploadFolder with the
\* files of the input, or a drop), every entry of the progress list has a
\* progress within 0..100 and a status among uploading, processing and
\* complete, and while no upload starts or settles the list keeps its
\* entries and no entry's progress decreases.
C19_ProgressBounds ==
    /\ [](\A i \in DOMAIN uploadProgress :
             /\ uploadProgress[i].progress >= 0
             /\ uploadProgress[i].progress <= 100
             /\ uploadProgress[i].status \in {"uploading", "processing", "complete"})
    /\ [][ mutations' = mutations =>
              /\ Len(uploadProgress') = Len(uploadProgress)
              /\ \A i \in DOMAIN uploadProgress :
                     /\ uploadProgress'[i].fileName = uploadProgress[i].fileName
                     /\ uploadProgress'[i].progress >= uploadProgress[i].progress
         ]_vars

\* an upload started by a drop is pending with an entry at the cap and
\* processing, next to an entry still uploading
C19_Witness ==
    /\ walkStatus = "done"
    /\ \E m \in DOMAIN mutations : mutations[m].status = "pending"
    /\ \E i, j \in DOMAIN uploadProgress :
           /\ uploadProgress[i].progress = 90
           /\ uploadProgress[i].status = "processing"
           /\ uploadProgress[j].status = "uploading"

\* C20: when every upload request made has settled, successfully or not,
\* and no drop is being read, the progress list is empty.
C20_ClearedOnSettle ==
    (/\ mutations # <<>>
     /\ \A m \in DOMAIN mutations : mutations[m].status # "pending"
     /\ walkStatus # "walking")
        => uploadProgress = <<>>

\* C21: the progress interval of an upload is running exactly while that
\* upload's request is pending: it runs as long as the request is in flight
\* and is cleared once the request has settled, on success and on failure.
C21_TimerLifetime ==
    \A k \in DOMAIN intervals :
        intervals[k].active <=> mutations[intervals[k].mutation].status = "pending"

\* the toasts shown for fetch k
ToastsOf(k) == { i \in DOMAIN toasts : toasts[i].fetch = k }

\* C22: for every result {imported, failed} an import-multiple request is
\* answered with, exactly one toast is shown for that import, and the toast
\* states the imported count of the result and, when files failed, the
\* failed count of the result.
C22_ImportToast ==
    \A k \in DOMAIN fetches :
        (fetches[k].kind = "import" /\ fetches[k].status = "ok") =>
            LET result == ValueOf(fetches[k].result) IN
            /\ Cardinality(ToastsOf(k)) = 1
            /\ \A i \in ToastsOf(k) :
                  /\ toasts[i].imported = {result.imported}
                  /\ result.failed > 0 => toasts[i].failed = {result.failed}

\* the blob {accessToken, refreshToken?} of the callback parameters
BlobOf(params) ==
    {[accessToken |-> ValueOf(params.access_token),
      refreshToken |-> ValueOf(params.refresh_token)]}

\* the parameters of a completed redirect: google_drive_auth=success with an
\* access_token
CarriesTokens(params) ==
    IsGoogleDriveCallback(params) /\ params.access_token # Unset

\* C23: whoever handles the redirect callback, initializeAuth of the
\* AuthProvider or the effect of the Drive browser dialog, with a session or
\* without, stores the tokens of the URL as the google_drive_tokens blob and
\* strips the parameters from the URL.
C23_CallbackConsumed ==
    [][ /\ (InitializeAuthResume /\ CarriesTokens(urlParams)) =>
              /\ google_drive_tokens' = BlobOf(urlParams)
              /\ location' = NoParams
        /\ (OpenBrowser /\ CarriesTokens(location)) =>
              /\ google_drive_tokens' = BlobOf(location)
              /\ location' = NoParams ]_vars

\* downloadFile and listFiles calls on the one googleDriveService, in any
\* interleaving
NextService == NextDrive \/ NextList

SpecService == InitDrive /\ [][NextService]_vars

\* C24: every upstream request of a downloadFile or listFiles call is made
\* with the access token passed to that call, whatever other calls set on
\* the shared oauth2Client in between.
C24_TokenIsolation ==
    /\ \A c \in Calls : \A i \in DOMAIN calls[c].requests :
          calls[c].requests[i].token = calls[c].accessToken
    /\ \A c \in ListCalls : \A i \in DOMAIN listCalls[c].requests :
          listCalls[c].requests[i].token = listCalls[c].accessToken

\* the list and search fetches, in the order they were issued
ListingFetches ==
    { k \in DOMAIN fetches : fetches[k].kind \in {"list", "search"} }

\* the list or search fetch issued last
LatestListing == CHOOSE k \in ListingFetches : \A j \in ListingFetches : j <= k

\* C25: once all list and search requests issued so far have been answered,
\* the displayed file list is the answer to the one issued last.
C25_LatestListingShown ==
    (/\ ListingFetches # {}
     /\ \A k \in ListingFetches : fetches[k].status = "ok")
        => driveFiles = RowsOf(fetches[LatestListing])

\* C26: while an upload request is in flight, the progress list has an entry
\* (under the file's name or relative path) for every file of that upload,
\* also when a second upload was started
\* before the first had settled.
C26_EntryPerFile ==
    \A m \in DOMAIN mutations :
        mutations[m].status = "pending" =>
            \A i \in DOMAIN mutations[m].files :
                \E j \in DOMAIN uploadProgress :
                    uploadProgress[j].fileName \in
                        {mutations[m].files[i].name,
                         mutations[m].files[i].webkitRelativePath}

\* every part of every path is non-empty
NonEmptySegments(fs) ==
    \A i \in DOMAIN fs : \A k \in DOMAIN PathParts(fs[i]) : PathParts(fs[i])[k] # <<>>

\* the folder paths of fs whose last segment is named `files`
FilesFolders(fs) == { fp \in FolderPaths(fs) : fp[Len(fp)] = FilesKey }

\* C27: for a list whose paths have non-empty segments and name a folder
\* `files`, at any level and in any order, the builder returns without
\* error, and each such folder is a folder node of its parent.
C27_FilesFolder ==
    (/\ buildStatus # "running"
     /\ NonEmptySegments(files)
     /\ FilesFolders(files) # {}) =>
        /\ buildStatus = "returned"
        /\ \A fp \in FilesFolders(files) :
              LET parent == MapAt(structure, SubSeq(fp, 1, Len(fp) - 1))
              IN /\ parent.kind = "object"
                 /\ GetProp(parent, FilesKey).kind = "node"

\* folderHistory.slice(0, -1)
WithoutLast(history) == SubSeq(history, 1, Len(history) - 1)

\* C28: folderHistory always starts with the root entry and currentFolderId
\* is the id of its last entry; navigateBack at the root changes nothing and
\* issues no request; navigateBack elsewhere drops the last entry and makes
\* its predecessor current, so that after navigateToFolder(x) it restores
\* the folderHistory and the currentFolderId there were before.
C28_Navigation ==
    /\ [](/\ folderHistory # <<>>
          /\ folderHistory[1] = RootEntry
          /\ currentFolderId = folderHistory[Len(folderHistory)].id)
    /\ [][ /\ (navigateBack /\ Len(folderHistory) = 1) => UNCHANGED vars
           /\ (navigateBack /\ Len(folderHistory) > 1) =>
                 /\ folderHistory' = WithoutLast(folderHistory)
                 /\ currentFolderId' = folderHistory'[Len(folderHistory')].id
           /\ (\E row \in driveFiles : navigateToFolder(row.id, row.name)) =>
                 /\ Len(folderHistory') > 1
                 /\ WithoutLast(folderHistory') = folderHistory
                 /\ WithoutLast(folderHistory')[Len(folderHistory)].id
                       = currentFolderId
         ]_vars

\* folder A was opened from the root and navigateBack has led back: the
\* third request lists the root again
C28_Witness ==
    /\ Len(fetches) = 3
    /\ fetches[2].kind = "list" /\ fetches[2].arg = "A"
    /\ fetches[3].kind = "list" /\ fetches[3].arg = "root"
    /\ folderHistory = <<RootEntry>>
    /\ currentFolderId = "root"

\* the import fetches of the dialog
ImportFetches == { k \in DOMAIN fetches : fetches[k].kind = "import" }

\* C29: handleImport with an empty selection issues no request and changes
\* nothing; otherwise it issues one import-multiple request with exactly the
\* selected file ids; a successful answer empties the selection and closes
\* the dialog, a failed one leaves the selection and the dialog as they are;
\* and whenever no import request is pending the importing flag is false.
C29_Import ==
    /\ []((\A k \in ImportFetches : fetches[k].status # "pending")
              => importing = FALSE)
    /\ [][ /\ (handleImport /\ selectedFiles = {}) => UNCHANGED vars
           /\ (handleImport /\ selectedFiles # {}) =>
                 /\ Len(fetches') = Len(fetches) + 1
                 /\ SubSeq(fetches', 1, Len(fetches)) = fetches
                 /\ fetches'[Len(fetches')].kind = "import"
                 /\ fetches'[Len(fetches')].arg = selectedFiles
                 /\ fetches'[Len(fetches')].status = "pending"
           /\ (\E k \in ImportFetches :
                 \E result \in ResultsFor(fetches[k]) : ImportResponse(k, result))
                 => (selectedFiles' = {} /\ ~isOpen')
           /\ (\E k \in ImportFetches : ImportError(k))
                 => UNCHANGED <<selectedFiles, isOpen>>
         ]_vars

\* an import has failed and a second one, of the selection the failure
\* left, has succeeded: the selection is empty and the dialog closed
C29_Witness ==
    \E j, k \in ImportFetches :
        /\ j < k
        /\ fetches[j].status = "failed"
        /\ fetches[k].status = "ok"
        /\ fetches[k].arg = fetches[j].arg
        /\ selectedFiles = {}
        /\ ~isOpen
        /\ ~importing

\* C30: a SIGNED_OUT event removes the google_drive_tokens blob, sets the
\* connection status to disconnected and leaves no access token in the
\* Drive browser dialog.
C30_SignOutClears ==
    [][ SignedOut =>
           /\ google_drive_tokens' = NoBlob
           /\ googleDriveConnected' = FALSE
           /\ browserToken' = "" ]_vars

=============================================================================
